---- MODULE Spec2Model ----
(***************************************************************************)
(* Model of jira2gitlab.py: the incremental migration engine.              *)
(*                                                                         *)
(* One process runs the main body (load the state file, migrate the issues *)
(* of each project of PROJECTS, process the links, wrap up).  The GitLab    *)
(* server, the Jira source and the state file on disk survive the process; *)
(* the in-memory IMPORT_STATUS does not.  A run can be interrupted         *)
(* (SIGINT), killed, and started again.                                    *)
(***************************************************************************)
EXTENDS Integers, Sequences, FiniteSets, TLC

\* ------------------------------------------------------------------ bounds
NumItems == 3     \* Jira issues of the projects, keys 1..NumItems
MaxRuns  == 2     \* process starts
MaxFaults == 2    \* failed calls, interrupts, kills and source edits over all the runs
MaxLines == 3     \* lines of a text given to the translator
MaxCols == 3      \* cells of a table row of such a text
MaxAttachments == 2 \* attachments of a list given to move_attachments
MaxComponents == 2  \* components of an issue
MaxOver == 3        \* characters by which a title exceeds the limit

\* ----------------------------------------------------------- configuration
GITLAB_ADMIN == "root"
GITLAB_PREMIUM == TRUE
MIGRATE_ATTACHMENTS == TRUE
ADD_JIRA_KEY_TO_TITLE == TRUE
MIGRATE_USERS == FALSE
MAKE_USERS_TEMPORARILY_ADMINS == TRUE

\* USER_MAP of the configuration: Jira user name -> GitLab user name
USER_MAP_DOM == {"Bob", "Bane"}
USER_MAP(j) == CASE j = "Bob" -> "bob" [] j = "Bane" -> "jane"

\* PROJECTS of the configuration: the Jira projects, in the order the main
\* body migrates them
PROJECTS == <<"PROJECT1", "PROJECT2", "PROJECT3">>

\* The sets of accounts the GitLab server can have (gl_users is loaded from
\* them): every account USER_MAP names, or the one of USER_MAP["Bane"]
\* missing
GlAccounts == {{GITLAB_ADMIN, "bob", "jane"}, {GITLAB_ADMIN, "bob"}}

\* ------------------------------------------------------------ source data
Keys == 1..NumItems
ForeignKey == NumItems + 10           \* an issue of a project that is not migrated

\* The issues of the projects: the first two keys are of the first project,
\* the third of the second, the others of the third
ProjectKeys(p) ==
    CASE p = 1 -> {k \in Keys : k <= 2}
      [] p = 2 -> {k \in Keys : k = 3}
      [] OTHER -> {k \in Keys : k >= 4}

\* The source order of the issues of a project (ORDER BY key)
RECURSIVE SeqOf(_)
SeqOf(S) ==
    IF S = {} THEN <<>>
    ELSE LET m == CHOOSE x \in S : \A y \in S : y <= x
         IN  Append(SeqOf(S \ {m}), m)
ProjectIssues(p) == SeqOf(ProjectKeys(p))

IsEpic(k) == k % 2 = 0
\* issue["fields"]["reporter"]["name"], "jira" for an issue without reporter
Reporter(k) == CASE k % 3 = 1 -> "Eve" [] k % 3 = 2 -> "Bob" [] OTHER -> "jira"
HasAttachment(k) == k = 1
\* issue["fields"]["assignee"]: the name of the assignee, "" when there is none
Assignee(k) == IF k = 1 THEN "Bane" ELSE ""
\* attachment["author"]["name"] of the attachment of the issue
AttachAuthor(k) == "Bane"

\* issue["fields"][JIRA_EPIC_FIELD]: the key of the epic the issue belongs to;
\* an epic has none, the other issues belong to the epic of the next key
\* (of the same project, of a later project, or of a project that is not
\* migrated)
EpicOf(k) == IF IsEpic(k) THEN 0 ELSE IF k + 1 <= NumItems THEN k + 1 ELSE ForeignKey

\* The requests made for a created issue, in the order the code makes them:
\* a note for each comment, the table of the custom fields, a note for each
\* worklog, the lookup of the commits at the source (made for every issue,
\* REFERECE_BITBUCKET_COMMITS is set), a note for each commit found, and the
\* close of an issue that is done
EnrichSteps(k) ==
    CASE k = 1 -> << [kind |-> "comment",   author |-> "Bane"],
                     [kind |-> "devstatus", author |-> "jira"],
                     [kind |-> "close",     author |-> "jira"] >>
      [] k = 2 -> << [kind |-> "worklog",   author |-> "Bob"],
                     [kind |-> "devstatus", author |-> "jira"],
                     [kind |-> "commits",   author |-> "jira"] >>
      [] OTHER -> << [kind |-> "worklog",   author |-> "Carl"],
                     [kind |-> "devstatus", author |-> "jira"] >>

\* The steps that change the GitLab issue (the lookup is a request to Jira)
Enrichments(k) == Cardinality({i \in DOMAIN EnrichSteps(k) : EnrichSteps(k)[i].kind # "devstatus"})

\* issue["fields"]["issuelinks"], the links with an outwardIssue in the
\* order of the list: <<type, to>>
IssueLinks(k) ==
    CASE k = 1 -> << <<"relates to", ForeignKey>> >>
      [] k = 2 -> << <<"clones", 1>>, <<"duplicates", 1>> >>
      [] OTHER -> << >>
OutLinks(k) == {IssueLinks(k)[i] : i \in DOMAIN IssueLinks(k)}
\* sub-tasks of the issue
Subtasks(k) == IF k = 2 THEN {1} ELSE {}

\* issue["fields"] is a dictionary: "summary" stands for the fields an edit
\* changes; Contents are its values at the source, Views the values the two
\* unstable fields can have in a fetched copy
Fields == {"summary", "lastViewed", "customfield_10300"}
Contents == {"a", "b"}
Views == {"t1", "t2"}

\* --------------------------------------------------------- pure functions
\* jira_issue_remove_unstable_data: each unstable field that is in the
\* dictionary is set to ""
jira_issue_remove_unstable_data_onlyviewed(issue) ==
    [f \in DOMAIN issue |-> IF f = "lastViewed" THEN "" ELSE issue[f]]
jira_issue_remove_unstable_data(issue) ==
    [f \in DOMAIN issue |->
        IF f \in {"lastViewed", "customfield_10300"} THEN "" ELSE issue[f]]

\* dict_hash: the digest of json.dumps(dictionary, sort_keys=True), that is
\* of the (key, value) pairs in the order of the keys; the digest itself is
\* modelled as collision free
SortedFields == <<"customfield_10300", "lastViewed", "summary">>
dict_hash(issue) ==
    LET pairs == [i \in 1..Len(SortedFields) |->
                    <<SortedFields[i],
                      IF SortedFields[i] \in DOMAIN issue
                      THEN issue[SortedFields[i]] ELSE "">>]
    IN SelectSeq(pairs, LAMBDA p : p[1] \in DOMAIN issue)

issue_hash_of(issue) == dict_hash(jira_issue_remove_unstable_data(issue))

\* The copies of an issue a fetch can return: the Jira instance has both
\* unstable fields
Fetched(content) ==
    {[f \in Fields |-> CASE f = "summary" -> content
                         [] f = "lastViewed" -> v
                         [] OTHER -> w] : v, w \in Views}

\* Epics are put at the top of the list (stable partition), premium only
RECURSIVE FilterSeq(_, _)
FilterSeq(s, epic) ==
    IF s = <<>> THEN <<>>
    ELSE IF IsEpic(Head(s)) = epic
         THEN <<Head(s)>> \o FilterSeq(Tail(s), epic)
         ELSE FilterSeq(Tail(s), epic)

\* The list is left in the source order
OrderIssues_unsorted(s) == s

OrderIssues(s) ==
    IF GITLAB_PREMIUM THEN FilterSeq(s, TRUE) \o FilterSeq(s, FALSE) ELSE s

\* ------------------------------------------------------------------ state
None == 0
GROUP_ID == 7     \* the id GitLab gives for the group of the project
NoRec == [id |-> 0, hash |-> <<>>]
NoEpics == [k \in {} |-> None]
EmptyStatus == [issue_mapping       |-> [k \in Keys |-> NoRec],
                gl_users_made_admin |-> {},
                links_todo          |-> {}]

VARIABLES
    src,              \* Jira: key -> content of the issue
    gl_items,         \* GitLab: id -> [key, enriched] of the existing issues
    gl_admins,        \* GitLab: accounts (other than root) that are admin
    gl_accounts,      \* GitLab: the accounts of the server
    file,             \* the state file (import_status.pickle): what it decodes to
    file_form,        \* "absent", "empty", "truncated" or "ok"
    run,              \* number of the process start
    pc,               \* position of the main body
    IMPORT_STATUS,    \* in-memory state
    IMPORT_SUCCEEDED,
    gl_users,         \* accounts whose cached is_admin is true
    project,          \* position in PROJECTS of the project being migrated
    gitlab_group_id,  \* id of the group of the project, None until it is found
    jira_gl_epic_issues_map, \* key of an epic created in this run -> its GitLab id
    jira_issues,      \* the ordered issue list of the project
    index,            \* position in jira_issues
    issue_hash,       \* hash of the issue of the current iteration
    gl_issue,         \* id of the issue created in the current iteration
    step,             \* next enrichment step of the current issue
    replacements,     \* attachment replacements of the current issue
    todo,             \* the copy a loop iterates over (links, ledger)
    exit_status,      \* -1 while running
    report,           \* ledger entries printed by final_report
    calls,            \* item and account calls issued to GitLab in this run, in order
    link_calls,       \* triples process_links called GitLab for in this run
    faults,           \* failed calls, interrupts, kills and source edits so far
    h,                \* history of the run (auxiliary)
    fn_pc,            \* a function called on its own: "off", "ready", "returned"
    fn_in,            \* its arguments
    fn_out            \* what it returned or raised

vars == <<src, gl_items, gl_admins, gl_accounts, file, file_form, run, pc,
          IMPORT_STATUS, IMPORT_SUCCEEDED, gl_users, project, gitlab_group_id, jira_gl_epic_issues_map,
          jira_issues, index, issue_hash, gl_issue,
          step, replacements, todo, exit_status, report, calls, link_calls,
          faults, h, fn_pc, fn_in, fn_out>>

\* The main body
main == <<src, gl_items, gl_admins, gl_accounts, file, file_form, run, pc,
          IMPORT_STATUS, IMPORT_SUCCEEDED, gl_users, project, gitlab_group_id, jira_gl_epic_issues_map,
          jira_issues, index, issue_hash, gl_issue,
          step, replacements, todo, exit_status, report, calls, link_calls,
          faults, h>>

\* A function called on its own
fn == <<fn_pc, fn_in, fn_out>>
NoIn == [f |-> "none"]
NoOut == [err |-> "none"]

world == <<src, gl_items, gl_admins, file, file_form>>

\* Auxiliary history of one run
NoHist == [loadedMap   |-> [k \in Keys |-> NoRec],
           loadedTodo  |-> {},
           loadForm    |-> "none",
           loaded      |-> FALSE,
           started     |-> {},
           skipped     |-> {},
           succeeded   |-> {},
           created     |-> {},
           failKind    |-> "none",
           failKey     |-> 0,
           intrKey     |-> 0,
           interrupted |-> FALSE,
           anyFail     |-> FALSE,
           resetCalled |-> FALSE,
           resetFailed |-> FALSE,
           wrapStored  |-> FALSE,
           projectsDone |-> FALSE,
           linksDone   |-> FALSE,
           prevOk      |-> FALSE,
           ledger0     |-> {},
           revertFail  |-> "",
           linkFailed  |-> {},
           prevLinkCalls |-> {},
           elevated    |-> {},
           rollKind    |-> "none",
           mainCut     |-> FALSE,
           resetCut    |-> FALSE,
           wrapCut     |-> FALSE]

HasRec(m, k) == k \in Keys /\ m[k] # NoRec

InitMain ==
    /\ src = [k \in Keys |-> "a"]
    /\ gl_items = <<>>
    /\ gl_admins = {}
    /\ file = EmptyStatus
    /\ file_form = "absent"
    /\ run = 1
    /\ pc = "start"
    /\ IMPORT_STATUS = EmptyStatus
    /\ IMPORT_SUCCEEDED = FALSE
    /\ gl_users = {}
    /\ project = 1
    /\ gitlab_group_id = None
    /\ jira_gl_epic_issues_map = NoEpics
    /\ jira_issues = <<>>
    /\ index = 0
    /\ issue_hash = <<>>
    /\ gl_issue = 0
    /\ step = 0
    /\ replacements = FALSE
    /\ todo = {}
    /\ exit_status = -1
    /\ report = {}
    /\ calls = <<>>
    /\ link_calls = {}
    /\ faults = 0
    /\ h = NoHist

\* The program is started: no function is called on its own
Init ==
    /\ InitMain
    /\ gl_accounts \in GlAccounts
    /\ fn_pc = "off" /\ fn_in = NoIn /\ fn_out = NoOut

\* ------------------------------------------------------- identity resolver
\* resolve_login: the GitLab account a Jira user name resolves to
resolve_login(j) ==
    IF j = "jira" THEN GITLAB_ADMIN
    ELSE IF j \in USER_MAP_DOM
         THEN IF USER_MAP(j) \in gl_accounts THEN USER_MAP(j)
              ELSE IF MIGRATE_USERS THEN j ELSE GITLAB_ADMIN
         ELSE GITLAB_ADMIN

\* resolve_login calls gitlab_user_admin(user, True) for a mapped, existing
\* account whose cached is_admin is false
NeedsElevation(j) ==
    /\ j # "jira"
    /\ j \in USER_MAP_DOM
    /\ USER_MAP(j) \in gl_accounts
    /\ MAKE_USERS_TEMPORARILY_ADMINS
    /\ USER_MAP(j) \notin gl_users
    /\ USER_MAP(j) # GITLAB_ADMIN

Call(op, key, id, user) == [op |-> op, key |-> key, id |-> id, user |-> user]

\* The privilege change is sent for the account the login resolves to,
\* without the tests of is_admin and of the administrator
ElevationTarget_noguard(j) == resolve_login(j)

\* The account resolve_login(j) sends gitlab_user_admin(user, True) for, ""
\* when it sends none. The cached is_admin is that of the listing at the
\* start: it is not updated when the account is made an administrator
ElevationTarget(j) == IF NeedsElevation(j) THEN USER_MAP(j) ELSE ""

\* ----------------------------------------------------------- GitLab server
NewId(k) == (run - 1) * NumItems + k

GlDelete(items, id) == [i \in DOMAIN items \ {id} |-> items[i]]
GlCreate(items, id, k) == items @@ (id :> [key |-> k, enriched |-> 0, links |-> {}, epic |-> 0])
GlEnrich(items, id) ==
    IF id \in DOMAIN items
    THEN [items EXCEPT ![id].enriched = @ + 1]
    ELSE items

\* POST .../epics/<epic>/issues/<id>: the issue is put in the epic
GlAssign(items, id, epic) ==
    IF id \in DOMAIN items /\ epic \in DOMAIN items
    THEN [items EXCEPT ![id].epic = epic]
    ELSE items

\* POST .../issues/<a>/links with target b: the link is made when GitLab has
\* both issues; the links of an issue go away with the issue (an id is never
\* given twice)
GlLink(items, a, b) ==
    IF a \in DOMAIN items /\ b \in DOMAIN items
    THEN [items EXCEPT ![a].links = @ \cup {b}]
    ELSE items
Linked(items, a, b) ==
    a \in DOMAIN items /\ b \in DOMAIN items /\ b \in items[a].links

\* requests.delete: the response is not looked at; a connection failure raises
DeleteOutcomes == {"ok", "error", "raise"}
AfterDelete(items, id, o) == IF o = "ok" THEN GlDelete(items, id) ELSE items

\* The url of an epic has the group id in it: with gitlab_group_id None it is
\* .../groups/None/epics/..., which GitLab does not find
NoGroupUrl(k) == GITLAB_PREMIUM /\ IsEpic(k) /\ gitlab_group_id = None
DeleteOldOutcomes(k) == IF NoGroupUrl(k) THEN {"notfound", "raise"} ELSE DeleteOutcomes
CreateOutcomes(k) ==
    IF NoGroupUrl(k) THEN {"notfound"} ELSE {"ok", "fail", "sigint_after"}

\* ------------------------------------------------------------ main: start
\* The environment injects at most MaxFaults events (failures and edits)
Cost(o) == IF o \in {"ok", "none", "notfound", "y"} THEN 0 ELSE 1
Spend(n) == faults + n <= MaxFaults /\ faults' = faults + n

CurKey == jira_issues[index]

\* The exception is swallowed and the main body goes on with process_links
Raise_tolinks(kind, key) ==
    /\ pc' = "links"
    /\ h' = [h EXCEPT !.failKind = kind, !.failKey = key, !.anyFail = TRUE]

\* An exception leaves the try block of the main body: wrapup runs (finally)
Raise(kind, key) ==
    /\ pc' = "wrapup"
    /\ h' = [h EXCEPT !.failKind = kind, !.failKey = key, !.anyFail = TRUE]

\* The state file is never read: every run starts as the first one
LoadOutcome_fresh(form) == "FileNotFoundError"

\* What pickle.load does with the file: FileNotFoundError when there is no
\* file, EOFError on a file of no bytes or of the first two bytes of the
\* pickle ("empty"), UnpicklingError on a file cut anywhere else ("truncated")
LoadOutcome(form) ==
    CASE form = "absent"    -> "FileNotFoundError"
      [] form = "empty"     -> "EOFError"
      [] form = "truncated" -> "UnpicklingError"
      [] OTHER              -> "loaded"

\* The namespaces and the users of GitLab are listed (raise_for_status, no
\* try block): a failed request ends the process before the state file is
\* read and without wrapup
ListOutcomes == {"ok", "fail"}

\* When the state file exists the operator is asked whether to continue:
\* the answer n (or an empty answer) ends the process with sys.exit(1)
PromptAnswers == IF file_form = "absent" THEN {"y"} ELSE {"y", "n"}

\* The start of the process: the prompt, the two listings, then
\* load_import_status; an exception other than the two it catches ends the
\* process before the try block
Load ==
    /\ UNCHANGED <<fn, gl_accounts, gitlab_group_id, jira_gl_epic_issues_map>>
    /\ pc = "start"
    /\ \E a \in PromptAnswers, o \in ListOutcomes :
         /\ a = "n" => o = "ok"
         /\ Spend(Cost(o) + Cost(a))
         /\ IF o # "ok" \/ a = "n"
            THEN /\ pc' = "crashed"
                 /\ exit_status' = 1
                 /\ UNCHANGED <<IMPORT_STATUS, gl_users, h>>
            ELSE /\ gl_users' = gl_admins
                 /\ IF LoadOutcome(file_form) = "UnpicklingError"
                    THEN /\ pc' = "crashed"
                         /\ exit_status' = 1
                         /\ h' = [h EXCEPT !.loadForm = file_form]
                         /\ UNCHANGED IMPORT_STATUS
                    ELSE /\ pc' = "project"
                         /\ exit_status' = exit_status
                         /\ IMPORT_STATUS' = IF LoadOutcome(file_form) = "loaded"
                                             THEN file ELSE EmptyStatus
                         /\ h' = [h EXCEPT !.loaded = TRUE, !.loadForm = file_form,
                                           !.loadedMap = IMPORT_STATUS'.issue_mapping,
                                           !.loadedTodo = IMPORT_STATUS'.links_todo]
    /\ UNCHANGED <<world, run, IMPORT_SUCCEEDED, project, jira_issues, index,
                   issue_hash, gl_issue, step, replacements, todo, report,
                   calls, link_calls>>

\* What the search for the group of the project gives: a group with the
\* full path of the project's group, only groups with other paths, no group
\* (ValueError), or a failed call
GroupOutcomes == IF GITLAB_PREMIUM THEN {"ok", "nomatch", "empty", "fail"} ELSE {"ok", "fail"}

\* migrate_project up to the issue loop: group, project, milestones, issues
FetchProject ==
    /\ UNCHANGED <<fn, gl_accounts>>
    /\ jira_gl_epic_issues_map' = NoEpics
    /\ pc = "project"
    /\ \E o \in GroupOutcomes :
         \/ /\ o \in {"ok", "nomatch"}
            /\ Spend(Cost(o))
            /\ gitlab_group_id' = IF GITLAB_PREMIUM /\ o = "ok" THEN GROUP_ID ELSE None
            /\ jira_issues' = OrderIssues(ProjectIssues(project))
            /\ index' = 1
            /\ pc' = "item"
            /\ h' = h
         \/ /\ o \in {"empty", "fail"}
            /\ Spend(Cost(o))
            /\ Raise("precondition", 0)
            /\ UNCHANGED <<gitlab_group_id, jira_issues, index>>
    /\ UNCHANGED <<world, run, IMPORT_STATUS, IMPORT_SUCCEEDED, gl_users,
                   project, issue_hash, gl_issue, step, replacements, todo,
                   exit_status, report, calls, link_calls>>

\* ------------------------------------------------- migrate_project: issues
KeepItem == UNCHANGED <<run, IMPORT_SUCCEEDED, gl_users, project, jira_issues, todo,
                        exit_status, report, link_calls>>

\* Only the outward links are collected
LinksOf_nosubtasks(k) == {<<k, l[1], l[2]>> : l \in OutLinks(k)}

\* The triples collected from the issue's links and sub-tasks
LinksOf(k) ==
    {<<k, l[1], l[2]>> : l \in OutLinks(k)} \cup {<<s, "blocks", k>> : s \in Subtasks(k)}

\* The outcome of requests.get or requests.post: a response that is ok, a
\* response with an error status (falsy), or a connection failure that raises
TransferOutcomes == {"ok", "error", "raise"}

\* The triples of issue k in the order the two loops add them: the outward
\* links, then the sub-tasks
LinkSeq(k) ==
    [i \in DOMAIN IssueLinks(k) |-> <<k, IssueLinks(k)[i][1], IssueLinks(k)[i][2]>>]
        \o [i \in DOMAIN SeqOf(Subtasks(k)) |-> <<SeqOf(Subtasks(k))[i], "blocks", k>>]

\* IMPORT_STATUS["links_todo"].add for the links and the sub-tasks of issue k
WithLinks(st, k) == [st EXCEPT !.links_todo = @ \cup LinksOf(k)]

\* The two loops cut by a SIGINT after n of the triples were added
WithLinksUpTo(st, k, n) ==
    [st EXCEPT !.links_todo = @ \cup (LinksOf(k) \cap {LinkSeq(k)[i] : i \in 1..n})]

NeedsLogin(s) == s.kind \in {"comment", "worklog"}

\* The POST that puts the created issue in its epic: made when the epic was
\* created in this run (KeyError otherwise); the response is not looked at,
\* a connection failure raises a RequestException
AssignOutcomes(k) ==
    IF GITLAB_PREMIUM /\ EpicOf(k) # 0 /\ EpicOf(k) \in DOMAIN jira_gl_epic_issues_map
    THEN {"ok", "error", "raise"}
    ELSE {"none"}

\* The position of the main body at the next request of the transaction of
\* issue k: after enrichment step i - 1, after the creation, after the
\* attachment, after the download of the attachment, after the collection
\* of the links, after the assignee and at the start. resolve_login sends a
\* request only for an account it elevates
StepPc(k, i) ==
    IF i > Len(EnrichSteps(k)) THEN "store"
    ELSE IF NeedsLogin(EnrichSteps(k)[i]) /\ ElevationTarget(EnrichSteps(k)[i].author) # ""
         THEN "author"
         ELSE "enrich"
AfterCreate(k) == IF AssignOutcomes(k) # {"none"} THEN "assign" ELSE StepPc(k, 1)
AfterAttach(k) == IF ElevationTarget(Reporter(k)) # "" THEN "reporter" ELSE "create"
AfterGet(k) == IF ElevationTarget(AttachAuthor(k)) # "" THEN "att_author" ELSE "att_post"
AfterCollect(k) ==
    IF MIGRATE_ATTACHMENTS /\ HasAttachment(k) THEN "att_get" ELSE AfterAttach(k)
AfterAssignee(k) == "collect"
AfterItem(k) ==
    IF Assignee(k) # "" /\ ElevationTarget(Assignee(k)) # "" THEN "assignee"
    ELSE AfterAssignee(k)

\* The issue is in the status with the same hash: continue
ItemSkip ==
    /\ UNCHANGED <<fn, gl_accounts, gitlab_group_id, jira_gl_epic_issues_map>>
    /\ pc = "item" /\ index <= Len(jira_issues)
    /\ HasRec(IMPORT_STATUS.issue_mapping, CurKey)
    /\ \E issue \in Fetched(src[CurKey]) :
         IMPORT_STATUS.issue_mapping[CurKey].hash = issue_hash_of(issue)
    /\ index' = index + 1
    /\ h' = [h EXCEPT !.started = @ \cup {CurKey}, !.skipped = @ \cup {CurKey}]
    /\ UNCHANGED <<world, pc, IMPORT_STATUS, issue_hash, gl_issue, step,
                   replacements, calls, faults>>
    /\ KeepItem

\* The delete of the previously imported issue is skipped
ItemDeleteOld_nodelete ==
    /\ UNCHANGED <<fn, gl_accounts, gitlab_group_id, jira_gl_epic_issues_map>>
    /\ pc = "item" /\ index <= Len(jira_issues)
    /\ HasRec(IMPORT_STATUS.issue_mapping, CurKey)
    /\ \E issue \in Fetched(src[CurKey]) :
         /\ IMPORT_STATUS.issue_mapping[CurKey].hash # issue_hash_of(issue)
         /\ issue_hash' = issue_hash_of(issue)
    /\ pc' = AfterItem(CurKey)
    /\ IMPORT_STATUS' = IMPORT_STATUS
    /\ replacements' = FALSE
    /\ h' = [h EXCEPT !.started = @ \cup {CurKey}]
    /\ UNCHANGED <<world, index, gl_issue, step, calls, faults>>
    /\ KeepItem

\* The issue is in the status with another hash: delete the GitLab issue.
\* A SIGINT that arrives when GitLab has deleted the issue and the call has
\* not returned raises SigIntException there
ItemDeleteOld ==
    /\ UNCHANGED <<fn, gl_accounts, gitlab_group_id, jira_gl_epic_issues_map>>
    /\ pc = "item" /\ index <= Len(jira_issues)
    /\ HasRec(IMPORT_STATUS.issue_mapping, CurKey)
    /\ \E issue \in Fetched(src[CurKey]),
          o \in DeleteOldOutcomes(CurKey) \cup {"sigint_after"} :
         LET old == IMPORT_STATUS.issue_mapping[CurKey].id IN
         /\ IMPORT_STATUS.issue_mapping[CurKey].hash # issue_hash_of(issue)
         /\ o = "sigint_after" => ~NoGroupUrl(CurKey)
         /\ issue_hash' = issue_hash_of(issue)
         /\ Spend(Cost(o))
         /\ gl_items' = IF o = "sigint_after" THEN GlDelete(gl_items, old)
                         ELSE AfterDelete(gl_items, old, o)
         /\ calls' = Append(calls, Call("delete", CurKey, old, ""))
         /\ CASE o = "raise" ->
                   /\ pc' = "wrapup"
                   /\ IMPORT_STATUS' = IMPORT_STATUS
                   /\ h' = [h EXCEPT !.started = @ \cup {CurKey},
                                     !.failKind = "delete_old", !.failKey = CurKey,
                                     !.anyFail = TRUE]
              [] o = "sigint_after" ->
                   /\ pc' = "wrapup"
                   /\ IMPORT_STATUS' = IMPORT_STATUS
                   /\ h' = [h EXCEPT !.started = @ \cup {CurKey},
                                     !.interrupted = TRUE, !.mainCut = TRUE, !.intrKey = CurKey]
              [] OTHER ->
                   /\ pc' = AfterItem(CurKey)
                   /\ IMPORT_STATUS' = IMPORT_STATUS
                   /\ h' = [h EXCEPT !.started = @ \cup {CurKey},
                                     !.anyFail = @ \/ o = "error"]
    /\ replacements' = FALSE
    /\ UNCHANGED <<src, gl_admins, file, file_form, index, gl_issue, step>>
    /\ KeepItem

\* The issue is not in the status
ItemNew ==
    /\ UNCHANGED <<fn, gl_accounts, gitlab_group_id, jira_gl_epic_issues_map>>
    /\ pc = "item" /\ index <= Len(jira_issues)
    /\ ~HasRec(IMPORT_STATUS.issue_mapping, CurKey)
    /\ \E issue \in Fetched(src[CurKey]) : issue_hash' = issue_hash_of(issue)
    /\ pc' = AfterItem(CurKey)
    /\ IMPORT_STATUS' = IMPORT_STATUS
    /\ replacements' = FALSE
    /\ h' = [h EXCEPT !.started = @ \cup {CurKey}]
    /\ UNCHANGED <<world, index, gl_issue, step, calls, faults>>
    /\ KeepItem

\* The positions at which resolve_login waits for gitlab_user_admin(user,
\* True): for the assignee, the author of the attachment, the reporter and the
\* author of a comment or worklog
LoginPcs == {"assignee", "att_author", "reporter", "author"}
LoginUser ==
    CASE pc = "assignee"   -> Assignee(CurKey)
      [] pc = "att_author" -> AttachAuthor(CurKey)
      [] pc = "reporter"   -> Reporter(CurKey)
      [] OTHER             -> EnrichSteps(CurKey)[step].author
LoginNext ==
    CASE pc = "assignee"   -> AfterAssignee(CurKey)
      [] pc = "att_author" -> "att_post"
      [] pc = "reporter"   -> "create"
      [] OTHER             -> "enrich"
LoginFailKind ==
    CASE pc = "author"   -> "enrich_login"
      [] pc = "reporter" -> "reporter_login"
      [] OTHER           -> "prepare_login"

\* gitlab_user_admin(user, True) inside resolve_login: the PUT, then the
\* account is put on the ledger. A failed PUT raises Exception, which is not
\* a RequestException. A SIGINT that arrives when GitLab has applied the PUT
\* and the call has not returned raises SigIntException before the ledger
\* gets the account
Elevate ==
    /\ UNCHANGED <<fn, gl_accounts, gitlab_group_id, jira_gl_epic_issues_map>>
    /\ pc \in LoginPcs
    /\ \E o \in {"ok", "fail", "sigint_after"} :
         LET u == ElevationTarget(LoginUser) IN
         /\ Spend(Cost(o))
         /\ calls' = Append(calls, Call("admin_on", 0, 0, u))
         /\ CASE o = "ok" ->
                   /\ gl_admins' = gl_admins \cup {u}
                   /\ IMPORT_STATUS' =
                        [IMPORT_STATUS EXCEPT !.gl_users_made_admin = @ \cup {u}]
                   /\ pc' = LoginNext
                   /\ h' = [h EXCEPT !.elevated = @ \cup {u}]
              [] o = "fail" ->
                   /\ UNCHANGED <<gl_admins, IMPORT_STATUS>>
                   /\ pc' = "wrapup"
                   /\ h' = [h EXCEPT !.failKind = LoginFailKind, !.failKey = CurKey,
                                     !.anyFail = TRUE]
              [] OTHER ->
                   /\ gl_admins' = gl_admins \cup {u}
                   /\ UNCHANGED IMPORT_STATUS
                   /\ pc' = "wrapup"
                   /\ h' = [h EXCEPT !.elevated = @ \cup {u},
                                     !.interrupted = TRUE, !.mainCut = TRUE, !.intrKey = CurKey]
    /\ UNCHANGED <<src, gl_items, file, file_form, index, issue_hash, gl_issue, step,
                   replacements>>
    /\ KeepItem

\* The links and the sub-tasks of the issue are put in links_todo
Collect ==
    /\ UNCHANGED <<fn, gl_accounts, gitlab_group_id, jira_gl_epic_issues_map>>
    /\ pc = "collect"
    /\ IMPORT_STATUS' = WithLinks(IMPORT_STATUS, CurKey)
    /\ pc' = AfterCollect(CurKey)
    /\ UNCHANGED <<world, index, issue_hash, gl_issue, step, replacements, calls,
                   faults, h>>
    /\ KeepItem

\* move_attachments: requests.get of the content of the attachment of the
\* issue; a falsy response skips the attachment, a connection failure is
\* not caught and ends the try block of the main body
AttGet ==
    /\ UNCHANGED <<fn, gl_accounts, gitlab_group_id, jira_gl_epic_issues_map>>
    /\ pc = "att_get"
    /\ \E o \in TransferOutcomes :
         /\ Spend(Cost(o))
         /\ pc' = CASE o = "ok" -> AfterGet(CurKey)
                    [] o = "error" -> AfterAttach(CurKey)
                    [] OTHER -> "wrapup"
         /\ h' = CASE o = "ok" -> h
                   [] o = "error" -> [h EXCEPT !.anyFail = TRUE]
                   [] OTHER -> [h EXCEPT !.failKind = "attachment", !.failKey = CurKey,
                                         !.anyFail = TRUE]
    /\ UNCHANGED <<world, IMPORT_STATUS, index, issue_hash, gl_issue, step, replacements,
                   calls>>
    /\ KeepItem

\* move_attachments: requests.post of the file to the uploads of the project
AttPost ==
    /\ UNCHANGED <<fn, gl_accounts, gitlab_group_id, jira_gl_epic_issues_map>>
    /\ pc = "att_post"
    /\ \E o \in TransferOutcomes :
         /\ Spend(Cost(o))
         /\ calls' = Append(calls, Call("upload", CurKey, 0,
                                        resolve_login(AttachAuthor(CurKey))))
         /\ replacements' = (o = "ok")
         /\ pc' = IF o = "raise" THEN "wrapup" ELSE AfterAttach(CurKey)
         /\ h' = CASE o = "ok" -> h
                   [] o = "error" -> [h EXCEPT !.anyFail = TRUE]
                   [] OTHER -> [h EXCEPT !.failKind = "attachment", !.failKey = CurKey,
                                         !.anyFail = TRUE]
    /\ UNCHANGED <<world, IMPORT_STATUS, index, issue_hash, gl_issue, step>>
    /\ KeepItem

CreateCall == Call("create", CurKey, 0, resolve_login(Reporter(CurKey)))

\* The creation succeeded: the epic map and the issue mapping get the issue
Created ==
    LET id == NewId(CurKey) IN
    /\ gl_items' = GlCreate(gl_items, id, CurKey)
    /\ gl_issue' = id
    /\ jira_gl_epic_issues_map' =
          IF GITLAB_PREMIUM /\ IsEpic(CurKey)
          THEN jira_gl_epic_issues_map @@ (CurKey :> id)
          ELSE jira_gl_epic_issues_map
    /\ IMPORT_STATUS' = [IMPORT_STATUS EXCEPT !.issue_mapping[CurKey] =
                           [id |-> id, hash |-> issue_hash]]
    /\ step' = 1
    /\ pc' = AfterCreate(CurKey)
    /\ h' = [h EXCEPT !.created = @ \cup {CurKey},
                      !.succeeded = IF AfterCreate(CurKey) = "store"
                                    THEN @ \cup {CurKey} ELSE @]

\* A SIGINT arrives when GitLab has created the issue and the call has not
\* returned: SigIntException is raised before the issue is recorded
CreateInterrupted ==
    /\ gl_items' = GlCreate(gl_items, NewId(CurKey), CurKey)
    /\ pc' = "wrapup"
    /\ h' = [h EXCEPT !.interrupted = TRUE, !.mainCut = TRUE, !.intrKey = CurKey]
    /\ UNCHANGED <<gl_issue, IMPORT_STATUS, step, jira_gl_epic_issues_map>>

\* The POST that creates the GitLab issue, raise_for_status, and the issue
\* is put in the epic map and in the issue mapping
Create ==
    /\ UNCHANGED <<fn, gl_accounts, gitlab_group_id>>
    /\ pc = "create"
    /\ \E o \in CreateOutcomes(CurKey) :
         /\ Spend(Cost(o))
         /\ calls' = Append(calls, CreateCall)
         /\ CASE o = "ok" -> Created
              [] o = "sigint_after" -> CreateInterrupted
              [] OTHER ->
                   /\ Raise("create", CurKey)
                   /\ UNCHANGED <<gl_items, gl_issue, IMPORT_STATUS, step,
                                  jira_gl_epic_issues_map>>
    /\ UNCHANGED <<src, gl_admins, file, file_form, index, issue_hash, replacements>>
    /\ KeepItem

\* The created issue is put in its epic; a RequestException there is handled
\* like that of every request that follows
Assign ==
    /\ UNCHANGED <<fn, gl_accounts, gitlab_group_id, jira_gl_epic_issues_map>>
    /\ pc = "assign"
    /\ \E o \in AssignOutcomes(CurKey) :
         /\ Spend(Cost(o))
         /\ calls' = Append(calls, Call("epic", CurKey, gl_issue,
                                        resolve_login(Reporter(CurKey))))
         /\ gl_items' = IF o = "ok"
                         THEN GlAssign(gl_items, gl_issue,
                                       jira_gl_epic_issues_map[EpicOf(CurKey)])
                         ELSE gl_items
         /\ pc' = IF o = "raise" THEN "rollback" ELSE StepPc(CurKey, 1)
         /\ h' = [h EXCEPT !.anyFail = @ \/ o # "ok",
                           !.rollKind = IF o = "raise" THEN "enrich_http" ELSE @,
                           !.succeeded = IF o # "raise" /\ StepPc(CurKey, 1) = "store"
                                         THEN @ \cup {CurKey} ELSE @]
    /\ UNCHANGED <<src, gl_admins, file, file_form, IMPORT_STATUS, index, issue_hash,
                   gl_issue, step, replacements>>
    /\ KeepItem

\* The outcomes of the request of one enrichment step: raise_for_status
\* raises on an error status; the lookup of the commits has a timeout
EnrichOutcomes(s) ==
    {"ok", "http_fail"} \cup (IF s.kind = "devstatus" THEN {"timeout"} ELSE {})

\* The request of one enrichment step of the created issue (comment, custom
\* fields table, worklog, lookup of the commits, commit reference, close),
\* inside the try block; a RequestException is caught
Enrich ==
    /\ UNCHANGED <<fn, gl_accounts, gitlab_group_id, jira_gl_epic_issues_map>>
    /\ pc = "enrich" /\ step <= Len(EnrichSteps(CurKey))
    /\ LET s == EnrichSteps(CurKey)[step] IN
       \E o \in EnrichOutcomes(s) :
         /\ Spend(Cost(o))
         /\ calls' = IF s.kind = "devstatus" THEN calls
                      ELSE Append(calls,
                             Call(s.kind, CurKey, gl_issue,
                                  IF NeedsLogin(s) THEN resolve_login(s.author)
                                  ELSE GITLAB_ADMIN))
         /\ IF o = "ok"
            THEN /\ gl_items' = IF s.kind = "devstatus" THEN gl_items
                                 ELSE GlEnrich(gl_items, gl_issue)
                 /\ step' = step + 1
                 /\ pc' = StepPc(CurKey, step + 1)
                 /\ h' = [h EXCEPT !.succeeded = IF step = Len(EnrichSteps(CurKey))
                                                 THEN @ \cup {CurKey} ELSE @]
            ELSE /\ gl_items' = gl_items
                 /\ step' = step
                 /\ pc' = "rollback"
                 /\ h' = [h EXCEPT !.rollKind = IF o = "timeout" THEN "enrich_timeout"
                                                ELSE "enrich_http",
                                   !.anyFail = TRUE]
    /\ UNCHANGED <<src, gl_admins, file, file_form, IMPORT_STATUS, index, issue_hash,
                   gl_issue, replacements>>
    /\ KeepItem

\* except RequestException: the created issue is deleted (the response is not
\* looked at) and Exception is raised; a connection failure of the delete
\* raises in its place. A SIGINT that arrives when GitLab has deleted the
\* issue and the call has not returned raises SigIntException
Rollback ==
    /\ UNCHANGED <<fn, gl_accounts, gitlab_group_id, jira_gl_epic_issues_map>>
    /\ pc = "rollback"
    /\ \E d \in DeleteOutcomes \cup {"sigint_after"} :
         /\ Spend(Cost(d))
         /\ gl_items' = IF d = "sigint_after" THEN GlDelete(gl_items, gl_issue)
                         ELSE AfterDelete(gl_items, gl_issue, d)
         /\ calls' = Append(calls, Call("delete", CurKey, gl_issue, ""))
         /\ pc' = "wrapup"
         /\ h' = IF d = "sigint_after"
                  THEN [h EXCEPT !.interrupted = TRUE, !.mainCut = TRUE, !.intrKey = CurKey]
                  ELSE [h EXCEPT !.failKind = h.rollKind, !.failKey = CurKey,
                                 !.anyFail = TRUE]
    /\ UNCHANGED <<src, gl_admins, file, file_form, IMPORT_STATUS, index, issue_hash,
                   gl_issue, step, replacements>>
    /\ KeepItem

\* The points at which a SIGINT cuts store_import_status: before open(), or
\* between open(.., "wb"), which empties the file, and pickle.dump
StoreCuts == {"before", "open"}

\* store_import_status up to the point c: the file is as it was before
\* open(), empty once it is opened, rewritten when the call has returned
store_import_status(c) ==
    CASE c = "before" -> UNCHANGED <<file, file_form>>
      [] c = "open"   -> file' = EmptyStatus /\ file_form' = "empty"
      [] OTHER        -> file' = IMPORT_STATUS /\ file_form' = "ok"

\* The status is not written after the issue
ItemStore_nostore ==
    /\ UNCHANGED <<fn, gl_accounts, gitlab_group_id, jira_gl_epic_issues_map>>
    /\ pc = "store"
    /\ index' = index + 1
    /\ pc' = "item"
    /\ UNCHANGED <<world, IMPORT_STATUS, issue_hash, gl_issue,
                   step, replacements, calls, faults, h>>
    /\ KeepItem

\* The issue is imported: write the status to the file, next issue (the
\* call cut by a SIGINT is in Interrupt, by a kill in Kill)
ItemStore ==
    /\ UNCHANGED <<fn, gl_accounts, gitlab_group_id, jira_gl_epic_issues_map>>
    /\ pc = "store"
    /\ store_import_status("returned")
    /\ index' = index + 1
    /\ pc' = "item"
    /\ UNCHANGED <<src, gl_items, gl_admins, IMPORT_STATUS, issue_hash, gl_issue,
                   step, replacements, calls, faults, h>>
    /\ KeepItem

\* ------------------------------------------------ main: after the issues
KeepMain == UNCHANGED <<run, gl_users, jira_issues, index, issue_hash, gl_issue,
                        step, replacements, exit_status, report>>

KeepLinks == KeepMain /\ UNCHANGED project

\* migrate_project returned; create_or_update_label_colors of the project;
\* then the next project of PROJECTS or, after the last, process_links,
\* which starts on a copy of links_todo
LabelColors ==
    /\ UNCHANGED <<fn, gl_accounts, gitlab_group_id, jira_gl_epic_issues_map>>
    /\ pc = "item" /\ index > Len(jira_issues)
    /\ \E o \in {"ok", "fail"} :
         \/ /\ o = "ok"
            /\ Spend(Cost(o))
            /\ IF project < Len(PROJECTS)
               THEN /\ project' = project + 1
                    /\ pc' = "project"
                    /\ todo' = todo
                    /\ h' = h
               ELSE /\ project' = project
                    /\ pc' = "links"
                    /\ todo' = IMPORT_STATUS.links_todo
                    /\ h' = [h EXCEPT !.projectsDone = TRUE]
         \/ /\ o = "fail"
            /\ Spend(Cost(o))
            /\ Raise("labels", 0)
            /\ UNCHANGED <<todo, project>>
    /\ UNCHANGED <<world, IMPORT_STATUS, IMPORT_SUCCEEDED, calls, link_calls>>
    /\ KeepMain

NativeKinds == {"relates to", "blocks", "causes"}

\* The outcomes of the request of one link: raise_for_status is not called,
\* the response is tested. A SIGINT that arrives when GitLab has made the
\* link and the call has not returned raises SigIntException before the
\* triple is taken out of links_todo
LinkOutcomes == {"ok", "fail", "sigint_after"}

\* The records of the two endpoints are not looked at
ProcessLink_nocheck ==
    /\ UNCHANGED <<fn, gl_accounts, gitlab_group_id, jira_gl_epic_issues_map>>
    /\ pc = "links"
    /\ \E t \in todo, o \in LinkOutcomes :
         LET called == t[2] \in NativeKinds \cup {"duplicates"} IN
         /\ (~called => o = "ok")
         /\ Spend(Cost(o))
         /\ todo' = todo \ {t}
         /\ IMPORT_STATUS' = IF called /\ o # "sigint_after"
                             THEN [IMPORT_STATUS EXCEPT !.links_todo = @ \ {t}]
                             ELSE IMPORT_STATUS
         /\ link_calls' = IF called THEN link_calls \cup {t} ELSE link_calls
         /\ gl_items' = IF t[1] \in Keys /\ t[3] \in Keys /\ t[2] \in NativeKinds /\ o # "fail"
                         THEN GlLink(gl_items, IMPORT_STATUS.issue_mapping[t[1]].id,
                                     IMPORT_STATUS.issue_mapping[t[3]].id)
                         ELSE gl_items
         /\ pc' = IF o = "sigint_after" THEN "wrapup" ELSE pc
         /\ h' = [h EXCEPT !.anyFail = @ \/ o = "fail",
                           !.linkFailed = IF o = "fail" THEN @ \cup {t} ELSE @,
                           !.interrupted = @ \/ o = "sigint_after",
                           !.mainCut = @ \/ o = "sigint_after"]
    /\ UNCHANGED <<src, gl_admins, file, file_form, IMPORT_SUCCEEDED, calls>>
    /\ KeepLinks

\* process_links: one iteration of the loop over the copy
ProcessLink ==
    /\ UNCHANGED <<fn, gl_accounts, gitlab_group_id, jira_gl_epic_issues_map>>
    /\ pc = "links"
    /\ \E t \in todo, o \in LinkOutcomes :
         LET mapped == /\ HasRec(IMPORT_STATUS.issue_mapping, t[1])
                       /\ HasRec(IMPORT_STATUS.issue_mapping, t[3])
             called == mapped /\ t[2] \in NativeKinds \cup {"duplicates"}
         IN
         /\ (~called => o = "ok")
         /\ Spend(Cost(o))
         /\ todo' = todo \ {t}
         /\ IMPORT_STATUS' = IF called /\ o # "sigint_after"
                             THEN [IMPORT_STATUS EXCEPT !.links_todo = @ \ {t}]
                             ELSE IMPORT_STATUS
         /\ link_calls' = IF called THEN link_calls \cup {t} ELSE link_calls
         /\ gl_items' = IF called /\ t[2] \in NativeKinds /\ o # "fail"
                         THEN GlLink(gl_items, IMPORT_STATUS.issue_mapping[t[1]].id,
                                     IMPORT_STATUS.issue_mapping[t[3]].id)
                         ELSE gl_items
         /\ pc' = IF o = "sigint_after" THEN "wrapup" ELSE pc
         /\ h' = [h EXCEPT !.anyFail = @ \/ o = "fail",
                           !.linkFailed = IF o = "fail" THEN @ \cup {t} ELSE @,
                           !.interrupted = @ \/ o = "sigint_after",
                           !.mainCut = @ \/ o = "sigint_after"]
    /\ UNCHANGED <<src, gl_admins, file, file_form, IMPORT_SUCCEEDED, calls>>
    /\ KeepLinks

\* process_links returned: IMPORT_SUCCEEDED = True, then finally: wrapup()
LinksEnd ==
    /\ UNCHANGED <<fn, gl_accounts, gitlab_group_id, jira_gl_epic_issues_map>>
    /\ pc = "links" /\ todo = {}
    /\ IMPORT_SUCCEEDED' = TRUE
    /\ pc' = "wrapup"
    /\ h' = [h EXCEPT !.linksDone = TRUE]
    /\ UNCHANGED <<world, IMPORT_STATUS, todo, calls, link_calls, faults>>
    /\ KeepLinks

\* ----------------------------------------------------------------- wrapup
\* wrapup calls reset_user_privileges, which loops over a copy of the ledger
\* (a SIGINT before the try of the reset is in Interrupt)
WrapupBegin ==
    /\ UNCHANGED <<fn, gl_accounts, gitlab_group_id, jira_gl_epic_issues_map>>
    /\ pc = "wrapup"
    /\ pc' = "reset"
    /\ todo' = IMPORT_STATUS.gl_users_made_admin
    /\ h' = [h EXCEPT !.resetCalled = TRUE,
                      !.ledger0 = IMPORT_STATUS.gl_users_made_admin]
    /\ UNCHANGED <<world, IMPORT_STATUS, IMPORT_SUCCEEDED, calls, link_calls, faults>>
    /\ KeepLinks

\* The outcomes of gitlab_user_admin(user, False) in the loop of
\* reset_user_privileges: the PUT succeeds or fails, or a SIGINT arrives
\* while the loop waits for it, before the request is sent or when GitLab
\* has applied it and the call has not returned
ResetOutcomes == {"ok", "fail", "sigint_before", "sigint_after"}

\* What one iteration of the loop does to GitLab, to the call log and to
\* the history
ResetEffects(u, o) ==
    /\ Spend(Cost(o))
    /\ calls' = IF o = "sigint_before" THEN calls
                 ELSE Append(calls, Call("admin_off", 0, 0, u))
    /\ gl_admins' = IF o \in {"ok", "sigint_after"} THEN gl_admins \ {u} ELSE gl_admins
    /\ h' = CASE o = "ok" -> [h EXCEPT !.elevated = @ \ {u}]
               [] o = "fail" -> [h EXCEPT !.resetFailed = TRUE, !.anyFail = TRUE,
                                          !.revertFail = u]
               [] o = "sigint_before" -> [h EXCEPT !.interrupted = TRUE, !.resetCut = TRUE]
               [] OTHER -> [h EXCEPT !.elevated = @ \ {u},
                                     !.interrupted = TRUE, !.resetCut = TRUE]

\* The entry is taken off the ledger whether or not the revert succeeded
ResetUser_dropfailed ==
    /\ UNCHANGED <<fn, gl_accounts, gitlab_group_id, jira_gl_epic_issues_map>>
    /\ pc = "reset"
    /\ \E u \in todo, o \in ResetOutcomes :
         /\ ResetEffects(u, o)
         /\ IMPORT_STATUS' = [IMPORT_STATUS EXCEPT !.gl_users_made_admin = @ \ {u}]
         /\ IF o = "ok"
            THEN /\ todo' = todo \ {u}
                 /\ pc' = "reset"
            ELSE /\ pc' = "wstore"
                 /\ todo' = todo
    /\ UNCHANGED <<src, gl_items, file, file_form, IMPORT_SUCCEEDED, link_calls>>
    /\ KeepLinks

\* gitlab_user_admin(user, False) for one entry of the ledger: the entry
\* is taken off the ledger when the PUT has returned without error; an
\* Exception (SigIntException is one) leaves the loop and is caught by wrapup
ResetUser ==
    /\ UNCHANGED <<fn, gl_accounts, gitlab_group_id, jira_gl_epic_issues_map>>
    /\ pc = "reset"
    /\ \E u \in todo, o \in ResetOutcomes :
         /\ ResetEffects(u, o)
         /\ IF o = "ok"
            THEN /\ IMPORT_STATUS' = [IMPORT_STATUS EXCEPT !.gl_users_made_admin = @ \ {u}]
                 /\ todo' = todo \ {u}
                 /\ pc' = "reset"
            ELSE /\ pc' = "wstore"
                 /\ UNCHANGED <<IMPORT_STATUS, todo>>
    /\ UNCHANGED <<src, gl_items, file, file_form, IMPORT_SUCCEEDED, link_calls>>
    /\ KeepLinks

\* The loop ended; the assertion that the ledger is empty
ResetEnd ==
    /\ UNCHANGED <<fn, gl_accounts, gitlab_group_id, jira_gl_epic_issues_map>>
    /\ pc = "reset" /\ todo = {}
    /\ pc' = "wstore"
    /\ UNCHANGED <<world, IMPORT_STATUS, IMPORT_SUCCEEDED, todo, calls, link_calls,
                   faults, h>>
    /\ KeepLinks

\* wrapup: store_import_status() (the call cut by a SIGINT is in Interrupt)
WrapupStore ==
    /\ UNCHANGED <<fn, gl_accounts, gitlab_group_id, jira_gl_epic_issues_map>>
    /\ pc = "wstore"
    /\ store_import_status("returned")
    /\ pc' = "report"
    /\ h' = [h EXCEPT !.wrapStored = TRUE]
    /\ UNCHANGED <<src, gl_items, gl_admins, IMPORT_STATUS, IMPORT_SUCCEEDED,
                   todo, calls, link_calls, faults>>
    /\ KeepLinks

\* The exit status of the process after wrapup
ExitStatus == IF IMPORT_SUCCEEDED THEN 0 ELSE 1

\* The points at which a SIGINT cuts final_report: before or after the
\* ledger was printed
ReportCuts == {"before", "after"}

\* final_report up to the point c: the entries left on the ledger are printed
final_report(c) ==
    report' = IF c = "before" THEN report ELSE IMPORT_STATUS.gl_users_made_admin

\* wrapup: final_report(), then sys.exit(1) unless the import succeeded (a
\* SIGINT meanwhile is in Interrupt)
FinalReport ==
    /\ UNCHANGED <<fn, gl_accounts, gitlab_group_id, jira_gl_epic_issues_map>>
    /\ pc = "report"
    /\ final_report("returned")
    /\ exit_status' = ExitStatus
    /\ pc' = "done"
    /\ UNCHANGED <<world, run, IMPORT_STATUS, IMPORT_SUCCEEDED, gl_users, project,
                   jira_issues, index, issue_hash, gl_issue, step, replacements,
                   todo, calls, link_calls, faults, h>>

\* ------------------------------------------------- interrupt, kill, restart
ItemPcs == {"assignee", "collect", "att_get", "att_author", "att_post", "reporter", "create",
            "assign", "author", "enrich", "rollback", "store"}
TryPcs == {"project", "item", "links"} \cup ItemPcs

\* The handler of SIGINT is registered before the main body and raises
\* SigIntException wherever the signal arrives
WrapupPcs == {"wrapup", "wstore", "report"}
InterruptPcs == {"start", "reset"} \cup TryPcs \cup WrapupPcs

\* Where the exception goes: before the try block and in wrapup outside the
\* try/except of the reset nothing catches it and the process ends; in the
\* try block the finally clause runs wrapup; in the reset wrapup catches it
\* and goes on to store the status
InterruptTarget(p) ==
    CASE p \in {"start"} \cup WrapupPcs -> "crashed"
      [] p = "reset" -> "wstore"
      [] OTHER -> "wrapup"

\* The points of a step at which the signal arrives
InterruptCuts(p) ==
    CASE p \in {"store", "wstore"} -> StoreCuts
      [] p = "report" -> ReportCuts
      [] OTHER -> {"before"}

\* The number of triples the collection of the links has added when the
\* signal arrives
CollectCuts(p) == IF p = "collect" THEN 0..Len(LinkSeq(CurKey)) ELSE {0}

\* SIGINT: sigint_handler raises SigIntException
Interrupt ==
    /\ UNCHANGED <<fn, gl_accounts, gitlab_group_id, jira_gl_epic_issues_map>>
    /\ pc \in InterruptPcs
    /\ Spend(1)
    /\ pc' = InterruptTarget(pc)
    /\ exit_status' = IF InterruptTarget(pc) = "crashed" THEN 1 ELSE exit_status
    /\ \E c \in InterruptCuts(pc) :
         /\ store_import_status(IF pc \in {"store", "wstore"} THEN c ELSE "before")
         /\ final_report(IF pc = "report" THEN c ELSE "before")
    /\ \E n \in CollectCuts(pc) :
         IMPORT_STATUS' = IF pc = "collect"
                          THEN WithLinksUpTo(IMPORT_STATUS, CurKey, n)
                          ELSE IMPORT_STATUS
    /\ h' = [h EXCEPT !.interrupted = TRUE,
                      !.mainCut = @ \/ pc \in TryPcs,
                      !.resetCut = @ \/ pc = "reset",
                      !.wrapCut = @ \/ pc \in WrapupPcs,
                      !.intrKey = IF pc \in ItemPcs THEN CurKey ELSE @]
    /\ UNCHANGED <<src, gl_items, gl_admins, run, IMPORT_SUCCEEDED,
                   gl_users, project, jira_issues, index, issue_hash, gl_issue,
                   step, replacements, todo, calls, link_calls>>

\* store_import_status opens the file for writing, which empties it, and
\* dumps the status into it: a process killed meanwhile leaves the file
\* empty or cut short
TornForms == {"empty", "truncated"}

\* The process is killed: the memory is lost; in final_report the ledger
\* may have been printed already
Kill ==
    /\ UNCHANGED <<fn, gl_accounts, gitlab_group_id>>
    /\ jira_gl_epic_issues_map' = NoEpics
    /\ pc \notin {"done", "killed", "crashed"}
    /\ Spend(1)
    /\ \E f \in (IF pc \in {"store", "wstore"} THEN {file_form} \cup TornForms
                 ELSE {file_form}) :
         /\ file_form' = f
         /\ file' = IF f \in TornForms THEN EmptyStatus ELSE file
    /\ pc' = "killed"
    /\ IMPORT_STATUS' = EmptyStatus
    /\ IMPORT_SUCCEEDED' = FALSE
    /\ gl_users' = {}
    /\ project' = 1
    /\ jira_issues' = <<>>
    /\ index' = 0
    /\ issue_hash' = <<>>
    /\ gl_issue' = 0
    /\ step' = 0
    /\ replacements' = FALSE
    /\ todo' = {}
    /\ calls' = <<>>
    /\ link_calls' = {}
    /\ \E c \in (IF pc = "report" THEN ReportCuts ELSE {"before"}) : final_report(c)
    /\ h' = [NoHist EXCEPT !.elevated = h.elevated, !.prevLinkCalls = link_calls]
    /\ UNCHANGED <<src, gl_items, gl_admins, run, exit_status>>

\* The operator starts the program again; meanwhile at most one issue was
\* edited or viewed at the source
Restart ==
    /\ UNCHANGED <<fn, gl_accounts>>
    /\ pc \in {"done", "killed", "crashed"}
    /\ run < MaxRuns
    /\ \E ek \in Keys, c \in Contents :
         /\ src' = [src EXCEPT ![ek] = c]
         /\ Spend(IF c = src[ek] THEN 0 ELSE 1)
         /\ h' = [NoHist EXCEPT
                    !.elevated = h.elevated,
                    !.prevLinkCalls = IF pc = "killed" THEN h.prevLinkCalls
                                      ELSE link_calls,
                    !.prevOk = pc = "done" /\ exit_status = 0 /\ c = src[ek]]
    /\ run' = run + 1
    /\ pc' = "start"
    /\ IMPORT_STATUS' = EmptyStatus
    /\ IMPORT_SUCCEEDED' = FALSE
    /\ gl_users' = {}
    /\ project' = 1
    /\ gitlab_group_id' = None
    /\ jira_gl_epic_issues_map' = NoEpics
    /\ jira_issues' = <<>>
    /\ index' = 0
    /\ issue_hash' = <<>>
    /\ gl_issue' = 0
    /\ step' = 0
    /\ replacements' = FALSE
    /\ todo' = {}
    /\ exit_status' = -1
    /\ report' = {}
    /\ calls' = <<>>
    /\ link_calls' = {}
    /\ UNCHANGED <<gl_items, gl_admins, file, file_form>>

Next ==
    \/ Load \/ FetchProject
    \/ ItemSkip \/ ItemDeleteOld \/ ItemNew \/ Elevate \/ Collect \/ AttGet \/ AttPost
    \/ Create \/ Assign \/ Enrich \/ Rollback
    \/ ItemStore \/ LabelColors \/ ProcessLink \/ LinksEnd
    \/ WrapupBegin \/ ResetUser \/ ResetEnd \/ WrapupStore \/ FinalReport
    \/ Interrupt \/ Kill \/ Restart

Spec == Init /\ [][Next]_vars


\* ===================================================== the markup translator
\* A text is a sequence of characters
BR == <<"<", "b", "r", ">">>
NL == <<"\n">>
DIVIDER == <<"|", " ", "-", "-", "-", " ">>

\* A line set to None by the first loop of jira_table_to_markdown
NoneLine == <<"None">>

Last(l) == l[Len(l)]

\* The characters at which str.splitlines ends a line: line feed, carriage
\* return, form feed, and the vertical tab, the three separators, the next
\* line and the two Unicode separators, written as Python writes them
LineBoundaries ==
    {"\n", "\r", "\f", "\\v", "\\x1c", "\\x1d", "\\x1e", "\\x85", "\\u2028", "\\u2029"}

\* The position of the first line boundary of s, 0 when s has none
FirstNL(s) == IF \E i \in 1..Len(s) : s[i] \in LineBoundaries
              THEN CHOOSE i \in 1..Len(s) :
                      s[i] \in LineBoundaries /\ \A j \in 1..(i - 1) : s[j] \notin LineBoundaries
              ELSE 0

\* The position at which the line break that starts at i ends: a carriage
\* return and the line feed that follows it are one line break
BreakEnd(s, i) == IF s[i] = "\r" /\ i < Len(s) /\ s[i + 1] = "\n" THEN i + 1 ELSE i

\* str.splitlines: the lines of the text, without their line breaks and
\* without a last empty line
RECURSIVE splitlines(_)
splitlines(s) ==
    IF s = <<>> THEN <<>>
    ELSE IF FirstNL(s) = 0 THEN <<s>>
    ELSE <<SubSeq(s, 1, FirstNL(s) - 1)>>
         \o splitlines(SubSeq(s, BreakEnd(s, FirstNL(s)) + 1, Len(s)))

\* "\n".join(lines)
RECURSIVE join(_)
join(lines) ==
    IF lines = <<>> THEN <<>>
    ELSE IF Len(lines) = 1 THEN lines[1]
    ELSE lines[1] \o NL \o join(Tail(lines))

\* The inner while loop: line i takes in the following lines until it ends
\* with the delimiter or the last line is taken in
RECURSIVE Absorb(_, _, _)
Absorb(lines, i, j) ==
    IF i + j < Len(lines) /\ Last(lines[i]) # "|"
    THEN Absorb([lines EXCEPT ![i] = @ \o BR \o lines[i + j + 1]], i, j + 1)
    ELSE [lines |-> lines, j |-> j]

\* The outer while loop from line i on; abort: the text is returned as it is
RECURSIVE Rejoin(_, _, _)
Rejoin(lines, i, force) ==
    IF i > Len(lines) THEN [abort |-> FALSE, lines |-> lines]
    ELSE IF lines[i] # <<>> /\ Head(lines[i]) = "|"
    THEN LET a == Absorb(lines, i, 0) IN
         IF i + a.j = Len(lines) /\ ~force
         THEN [abort |-> TRUE, lines |-> lines]
         ELSE Rejoin([k \in 1..Len(lines) |->
                        IF k > i /\ k <= i + a.j THEN NoneLine ELSE a.lines[k]],
                     i + a.j + 1, force)
    ELSE Rejoin(lines, i + 1, force)

\* re.sub(r"\|\|", r"|", line)
RECURSIVE SingleDelimiters(_)
SingleDelimiters(l) ==
    IF Len(l) < 2 THEN l
    ELSE IF l[1] = "|" /\ l[2] = "|"
    THEN <<"|">> \o SingleDelimiters(SubSeq(l, 3, Len(l)))
    ELSE <<l[1]>> \o SingleDelimiters(Tail(l))

\* pp: the number of pairs of delimiters of the line
Pairs(l) == Cardinality({i \in 1..Len(l) : l[i] = "|"}) \div 2

RECURSIVE Dividers(_)
Dividers(n) == IF n <= 0 THEN <<>> ELSE DIVIDER \o Dividers(n - 1)

\* "\n" + "| --- " * n + "|"
Separator(n) == NL \o Dividers(n) \o <<"|">>

IsHeader(l) ==
    /\ Len(l) >= 2
    /\ l[1] = "|" /\ l[2] = "|"
    /\ l[Len(l) - 1] = "|" /\ l[Len(l)] = "|"

IsRow(l) == l # <<>> /\ l[1] = "|" /\ Last(l) = "|"

\* The header loop: every ||-delimited line gets single delimiters and a
\* separator line
Headers(lines) ==
    [k \in 1..Len(lines) |->
        IF IsHeader(lines[k])
        THEN SingleDelimiters(lines[k]) \o Separator(Pairs(lines[k]) - 1)
        ELSE lines[k]]

\* The force repair: the first |-delimited line among the first lines_len
\* lines of the filtered list gets a separator line; reading past the end of
\* the filtered list raises IndexError
Repair(lines, lines_len) ==
    LET rows == {k \in 1..Len(lines) : k <= lines_len /\ IsRow(lines[k])} IN
    IF rows # {}
    THEN LET i == CHOOSE k \in rows : \A r \in rows : k <= r IN
         [err |-> "none",
          lines |-> [lines EXCEPT ![i] = SingleDelimiters(@)
                        \o Separator(Pairs(@) * 2 - 1)]]
    ELSE IF lines_len > Len(lines) THEN [err |-> "IndexError", lines |-> <<>>]
    ELSE [err |-> "none", lines |-> lines]

\* filter(None, lines): the lines that are neither None nor empty
Filtered(lines) == SelectSeq(lines, LAMBDA l : l # NoneLine /\ l # <<>>)

\* jira_table_to_markdown, FORCE_REPAIR_JIRA_TABLES given as force
jira_table_to_markdown(text, force) ==
    LET lines == splitlines(text)
        r == Rejoin(lines, 1, force)
        kept == Filtered(r.lines)
        found_table == \E k \in 1..Len(kept) : IsHeader(kept[k])
        hd == Headers(kept)
    IN
    IF r.abort THEN [err |-> "none", val |-> text]
    ELSE IF force /\ ~found_table
    THEN LET rp == Repair(hd, Len(lines)) IN
         [err |-> rp.err, val |-> join(rp.lines)]
    ELSE [err |-> "none", val |-> join(hd)]

\* re.sub(r'(\r?\n)', r'  \1', t): two spaces before every line feed and
\* before the carriage return that comes right before it; a match starts at
\* a line feed or at the carriage return right before one
RECURSIVE LineBreaks(_)
LineBreaks(t) ==
    LET starts == {i \in 1..Len(t) :
                     t[i] = "\n" \/ (t[i] = "\r" /\ i < Len(t) /\ t[i + 1] = "\n")}
    IN
    IF starts = {} THEN t
    ELSE LET p == CHOOSE i \in starts : \A j \in starts : i <= j IN
         SubSeq(t, 1, p - 1) \o <<" ", " ">> \o SubSeq(t, p, BreakEnd(t, p))
         \o LineBreaks(SubSeq(t, BreakEnd(t, p) + 1, Len(t)))

\* jira_text_2_gitlab_markdown with no replacements, for the texts made of
\* the characters "a", "|" and line breaks (line feed, carriage return, form
\* feed) and for what it returns for them (with "<br>", " " and "-"): no
\* other rule of the chain matches in these
jira_text_2_gitlab_markdown(absent, text, force) ==
    IF absent THEN [err |-> "none", val |-> <<>>]
    ELSE LET t == jira_table_to_markdown(text, force) IN
         IF t.err # "none" THEN t
         ELSE [err |-> "none", val |-> LineBreaks(t.val)]


\* ================================================== the attachment relocator

\* The state of move_attachments; val: the replacements so far, file name
\* -> the attachment whose upload it points to; gets, posts: the attachments
\* requests.get and requests.post were called for; err: the exception that
\* ended the function. The authors of the attachments resolve to the
\* administrator.
NoReplacements == [err |-> "none", val |-> <<>>, gets |-> <<>>, posts |-> <<>>]

\* requests.get of attachment i (lines 224-228): the call is made, and a
\* connection failure raises
requests_get(attachments, i, acc) ==
    LET called == [acc EXCEPT !.gets = Append(@, i)] IN
    IF attachments[i].get = "raise" THEN [called EXCEPT !.err = "ConnectionError"]
    ELSE called

\* requests.post of attachment i, the test of its response and the new
\* replacement, lines 239-262
requests_post(attachments, i, acc) ==
    LET a == attachments[i]
        called == [acc EXCEPT !.posts = Append(@, i)]
    IN
    IF a.post = "raise" THEN [called EXCEPT !.err = "ConnectionError"]
    ELSE IF a.post = "error" THEN called
    ELSE [called EXCEPT !.val = [f \in DOMAIN @ \cup {a.filename} |->
                                    IF f = a.filename THEN i ELSE @[f]]]

\* move_attachments from attachment i on, when no signal arrives; a falsy
\* response of requests.get goes on to the next attachment (lines 230-232)
RECURSIVE move_attachments(_, _, _)
move_attachments(attachments, i, acc) ==
    IF i > Len(attachments) THEN acc
    ELSE LET got == requests_get(attachments, i, acc)
             posted == requests_post(attachments, i, got)
         IN
         IF got.err # "none" THEN got
         ELSE IF attachments[i].get # "ok"
         THEN move_attachments(attachments, i + 1, got)
         ELSE IF posted.err # "none" THEN posted
         ELSE move_attachments(attachments, i + 1, posted)

\* ======================================================= the labels of an issue
\* The lookup tables of jira2gitlab_config.py, for the names used here
ISSUE_TYPE_MAP == [n \in {"Bug", "Epic"} |-> IF n = "Bug" THEN "T::bug" ELSE "T::epic"]
ISSUE_PRIORITY_MAP == [n \in {"Major"} |-> "P::normal"]
ISSUE_COMPONENT_MAP == [n \in {"Component1"} |-> "component1"]
ISSUE_STATUS_MAP == [n \in {"In Progress"} |-> "S::in progress"]
ISSUE_RESOLUTION_MAP == [n \in {"Duplicate"} |-> "S::duplicate"]
PREFIX_PRIORITY == "P::"
PREFIX_COMPONENT == ""

\* The names that are in no lookup table, and str.lower of them
Unmapped == {"Spike2", "Urgent", "Backend", "Open", "Done"}
lower(n) ==
    CASE n = "Spike2" -> "spike2"
      [] n = "Urgent" -> "urgent"
      [] n = "Backend" -> "backend"
      [] n = "Open" -> "open"
      [] n = "Done" -> "done"

\* A field of the issue: the key is missing, the value is null, or it is an
\* object with a name
AbsentField == [kind |-> "absent", name |-> ""]
NullField == [kind |-> "null", name |-> ""]
Named(n) == [kind |-> "name", name |-> n]

\* prefix + name
Prefixed(prefix, n) ==
    IF prefix = "" THEN n
    ELSE CASE prefix = "P::" /\ n = "urgent" -> "P::urgent"
           [] prefix = "P::" /\ n = "backend" -> "P::backend"

\* The component labels, lines 606-610
RECURSIVE ComponentLabels(_)
ComponentLabels(cs) ==
    IF cs = <<>> THEN <<>>
    ELSE <<IF Head(cs) \in DOMAIN ISSUE_COMPONENT_MAP
           THEN ISSUE_COMPONENT_MAP[Head(cs)]
           ELSE Prefixed(PREFIX_COMPONENT, lower(Head(cs)))>> \o ComponentLabels(Tail(cs))

\* gl_labels of an issue without Jira labels, lines 584-618; subscripting a
\* null priority raises TypeError
gl_labels(fields) ==
    LET type == <<IF fields.issuetype.name \in DOMAIN ISSUE_TYPE_MAP
                  THEN ISSUE_TYPE_MAP[fields.issuetype.name]
                  ELSE lower(fields.issuetype.name)>>
        priority ==
            IF fields.priority.kind = "absent" THEN <<>>
            ELSE IF fields.priority.kind = "name"
                    /\ fields.priority.name \in DOMAIN ISSUE_PRIORITY_MAP
            THEN <<ISSUE_PRIORITY_MAP[fields.priority.name]>>
            ELSE <<Prefixed(PREFIX_PRIORITY, lower(fields.priority.name))>>
        status ==
            IF fields.status.kind = "name" /\ fields.status.name \in DOMAIN ISSUE_STATUS_MAP
            THEN <<ISSUE_STATUS_MAP[fields.status.name]>> ELSE <<>>
        resolution ==
            IF fields.resolution.kind = "name"
               /\ fields.resolution.name \in DOMAIN ISSUE_RESOLUTION_MAP
            THEN <<ISSUE_RESOLUTION_MAP[fields.resolution.name]>> ELSE <<>>
    IN
    IF fields.priority.kind = "null"
    THEN [err |-> "TypeError", val |-> <<>>]
    ELSE [err |-> "none",
          val |-> <<"jira-import">> \o type \o priority
                  \o ComponentLabels(fields.components) \o status \o resolution]

\* ======================================================== the title of an issue
TITLE_LIMIT == 255
TITLE_KEPT == 252
ELLIPSIS == <<".", ".", ".">>
FULL_TITLE == <<"Full original title:", "\n", "\n">>

\* f"[{issue['key']}] "
KeyPrefix(key) == <<"[">> \o key \o <<"]", " ">>

\* The title is cut only after TITLE_LIMIT characters
title_and_description_cutatlimit(key, summary, gl_description) ==
    LET gl_title == (IF ADD_JIRA_KEY_TO_TITLE THEN KeyPrefix(key) ELSE <<>>) \o summary IN
    IF Len(gl_title) > TITLE_LIMIT
    THEN [title |-> SubSeq(gl_title, 1, TITLE_LIMIT) \o ELLIPSIS,
          description |-> FULL_TITLE \o gl_title \o <<"\n", "\n">> \o gl_description]
    ELSE [title |-> gl_title, description |-> gl_description]

\* data["title"] and data["description"], lines 672-687
title_and_description(key, summary, gl_description) ==
    LET gl_title == (IF ADD_JIRA_KEY_TO_TITLE THEN KeyPrefix(key) ELSE <<>>) \o summary IN
    IF Len(gl_title) > TITLE_LIMIT
    THEN [title |-> SubSeq(gl_title, 1, TITLE_KEPT) \o ELLIPSIS,
          description |-> FULL_TITLE \o gl_title \o <<"\n", "\n">> \o gl_description]
    ELSE [title |-> gl_title, description |-> gl_description]

\* ================================================== the description of an issue
Digits == <<"0", "1", "2", "3", "4", "5", "6", "7", "8", "9">>
\* f"{GITLAB_URL}{file_info['full_path']}" of the upload made for attachment i
\* of the list: every upload has a path of its own
full_file_path(i) == <<"https://gitlab.example.com", "/uploads/", Digits[i + 1]>>

\* value = rf"![{attachment['filename']}]({full_file_path})", line 260
value(filename, i) == <<"!", "[", filename, "]", "(">> \o full_file_path(i) \o <<")">>

\* replacements.items() after move_attachments has returned val: a dict keeps
\* its keys in the order of their first assignment, each with the value
\* assigned last; key: the file name of the pattern, value: the markup
RECURSIVE items(_, _, _, _)
items(attachments, val, i, seen) ==
    IF i > Len(attachments) THEN <<>>
    ELSE LET f == attachments[i].filename IN
         IF f \in DOMAIN val /\ f \notin seen
            /\ attachments[i].get = "ok" /\ attachments[i].post = "ok"
         THEN <<[key |-> f, value |-> value(f, val[f])]>>
              \o items(attachments, val, i + 1, seen \cup {f})
         ELSE items(attachments, val, i + 1, seen)

\* Where a match of rf"!{re.escape(filename)}[^!]*!" that starts at p ends,
\* 0 when there is none: the "!" and the file name, then everything up to the
\* next "!"
MatchEnd(filename, t, p) ==
    IF /\ t[p] = "!" /\ p + 1 <= Len(t) /\ t[p + 1] = filename
       /\ \E q \in (p + 2)..Len(t) : t[q] = "!"
    THEN CHOOSE q \in (p + 2)..Len(t) :
            t[q] = "!" /\ \A j \in (p + 2)..(q - 1) : t[j] # "!"
    ELSE 0

\* re.sub(k, v, t) from position p on: the matches, leftmost first and not
\* overlapping, are replaced by v
RECURSIVE re_sub(_, _, _, _)
re_sub(filename, v, t, p) ==
    IF p > Len(t) THEN <<>>
    ELSE IF MatchEnd(filename, t, p) # 0
    THEN v \o re_sub(filename, v, t, MatchEnd(filename, t, p) + 1)
    ELSE <<t[p]>> \o re_sub(filename, v, t, p + 1)

\* for k, v in adict.items(): t = re.sub(k, v, t), lines 200-202
RECURSIVE Substitute(_, _)
Substitute(adict, t) ==
    IF adict = <<>> THEN t
    ELSE Substitute(Tail(adict), re_sub(Head(adict).key, Head(adict).value, t, 1))

\* attachment in gl_description
Contains(s, v) == \E p \in 1..(Len(s) - Len(v) + 1) : SubSeq(s, p, p + Len(v) - 1) = v

\* The footer of the description, lines 658-663
JiraLink(key) ==
    <<"[">> \o key \o <<"]", "(", "https://jira.example.com", "/browse/">> \o key \o <<")">>
Footer(key, fallback) ==
    <<"\n", "\n", "_", "_", "_", "\n", "\n">>
    \o <<"**Imported from Jira issue ">> \o JiraLink(key) \o <<"**", "\n", "\n">>
    \o (IF fallback
        THEN <<"**Original creator of the issue: Jira user ", "reporter", "**", "\n", "\n">>
        ELSE <<>>)

\* The values that are not in the description are added to it, lines 665-669
RECURSIVE Mention(_, _, _)
Mention(adict, key, d) ==
    IF adict = <<>> THEN d
    ELSE Mention(Tail(adict), key,
            IF Contains(d, Head(adict).value) THEN d
            ELSE d \o <<"Attachment imported from Jira issue ">> \o JiraLink(key)
                 \o <<":", " ">> \o Head(adict).value \o <<"\n", "\n">>)

\* The translator with replacements, lines 140-204
jira_text_2_gitlab_markdown_adict(absent, text, force, adict) ==
    LET t == jira_text_2_gitlab_markdown(absent, text, force) IN
    IF absent \/ t.err # "none" THEN t
    ELSE [err |-> "none", val |-> Substitute(adict, t.val)]

\* data["description"] of the issue to create once move_attachments has
\* returned the replacements val, lines 655-687: the description is
\* translated, and the footer and the attachments not mentioned are added;
\* fallback: the reporter resolves to the administrator and is not "jira"
gl_description(attachments, val, absent, text, force, fallback, key, summary) ==
    LET adict == items(attachments, val, 1, {})
        t == jira_text_2_gitlab_markdown_adict(absent, text, force, adict)
    IN
    IF t.err # "none" THEN [err |-> t.err, val |-> <<>>]
    ELSE [err |-> "none",
          val |-> title_and_description(key, summary,
                     Mention(adict, key, t.val \o Footer(key, fallback))).description]

\* Lines 651-687 when no signal arrives: the attachments are moved, then
\* the description is built
description(attachments, absent, text, force, fallback, key, summary) ==
    LET moved == move_attachments(attachments, 1, NoReplacements) IN
    IF moved.err # "none" THEN [err |-> moved.err, val |-> <<>>]
    ELSE gl_description(attachments, moved.val, absent, text, force, fallback,
                        key, summary)

\* ------------------------------------------- the translator called on a text
\* The lines the texts are made of: plain text, a row that is not closed, the
\* end of such a row, and the rows and header rows of 1..MaxCols cells
RECURSIVE Cells(_, _)
Cells(d, n) == IF n = 0 THEN <<>> ELSE <<"a">> \o d \o Cells(d, n - 1)
TableRow(n) == <<"|">> \o Cells(<<"|">>, n)
HeaderRow(n) == <<"|", "|">> \o Cells(<<"|", "|">>, n)
Shapes ==
    {<<>>, <<"a">>, <<"|", "a">>, <<"a", "|">>}
    \cup {TableRow(n) : n \in 1..MaxCols} \cup {HeaderRow(n) : n \in 1..MaxCols}
LineFeedTexts ==
    {join(ls) \o e : ls \in UNION {[1..k -> Shapes] : k \in 0..MaxLines},
                     e \in {<<>>, NL}}

\* The texts whose lines end with the other line breaks: carriage return,
\* carriage return and line feed, form feed
OtherBreaks == {<<"\r">>, <<"\r", "\n">>, <<"\f">>}
BreakShapes == {<<"a">>, <<"|", "a">>, <<"a", "|">>, TableRow(1), HeaderRow(1)}
RECURSIVE JoinWith(_, _)
JoinWith(lines, b) ==
    IF Len(lines) = 1 THEN lines[1]
    ELSE lines[1] \o b \o JoinWith(Tail(lines), b)
BreakTexts ==
    UNION {{JoinWith(ls, b) \o e :
                ls \in UNION {[1..k -> BreakShapes] : k \in 1..MaxLines},
                e \in {<<>>, NL, b}} : b \in OtherBreaks}
Texts == LineFeedTexts \cup BreakTexts

TableInputs ==
    {[f |-> "jira_table_to_markdown", text |-> t, force |-> b] :
        t \in Texts, b \in BOOLEAN}
TranslateInputs ==
    {[f |-> "jira_text_2_gitlab_markdown", absent |-> FALSE, text |-> t,
      force |-> b, pass |-> 1] : t \in Texts, b \in BOOLEAN}
    \cup {[f |-> "jira_text_2_gitlab_markdown", absent |-> TRUE, text |-> <<>>,
           force |-> b, pass |-> 1] : b \in BOOLEAN}

Filenames == {"f", "g"}
Attachments == [filename : Filenames, get : TransferOutcomes, post : TransferOutcomes]
AttachmentInputs ==
    {[f |-> "move_attachments", attachments |-> l] :
        l \in UNION {[1..k -> Attachments] : k \in 0..MaxAttachments}}

IssueFields ==
    [issuetype  : {Named("Bug"), Named("Spike2")},
     priority   : {AbsentField, NullField, Named("Major"), Named("Urgent")},
     status     : {NullField, Named("In Progress"), Named("Open")},
     resolution : {NullField, Named("Duplicate"), Named("Done")},
     components : UNION {[1..k -> {"Component1", "Backend"}] : k \in 0..MaxComponents}]
LabelInputs == {[f |-> "gl_labels", fields |-> x] : x \in IssueFields}

\* Summaries of a few characters and summaries that bring the title to the
\* limit, just below it and up to MaxOver characters above it; the characters
\* of a summary tell its positions apart
TitleKey == <<"P", "-", "1">>
Summary(n) == [i \in 1..n |-> Digits[(i % 10) + 1]]
SummaryLengths ==
    0..MaxOver
    \cup {n \in 0..(TITLE_LIMIT + MaxOver) :
            /\ n + Len(KeyPrefix(TitleKey)) >= TITLE_KEPT - MaxOver
            /\ n + Len(KeyPrefix(TitleKey)) <= TITLE_LIMIT + MaxOver}
TitleInputs ==
    {[f |-> "title", key |-> TitleKey, summary |-> Summary(n), gl_description |-> d] :
        n \in SummaryLengths, d \in {<<>>, <<"d">>}}

\* Descriptions with references to the attachments, embedded or not, and
\* lists of attachments whose download and upload are answered; the title
\* is over the limit for lists of at most one attachment
DescriptionTexts ==
    {<<>>, <<"a">>, <<"!", "f", "!">>, <<"a", "!", "g", "!">>,
     <<"!", "f", "|", "a", "!">>, <<"!", "f", "!", "g", "!">>,
     <<"!", "g", "!", "\n", "!", "f", "!">>, <<"!", "f">>,
     <<"!", "f", "!", "\r", "\n", "a">>, <<"a", "\r", "!", "g", "!">>}
Answered == {a \in Attachments : a.get # "raise" /\ a.post # "raise"}
DescriptionInputs ==
    {[f |-> "description", attachments |-> l, absent |-> FALSE, text |-> t,
      force |-> b, fallback |-> c, key |-> TitleKey, summary |-> Summary(n)] :
        l \in UNION {[1..k -> Answered] : k \in 0..MaxAttachments},
        t \in DescriptionTexts, b \in BOOLEAN, c \in BOOLEAN, n \in {1}}
    \cup {[f |-> "description", attachments |-> l, absent |-> FALSE, text |-> t,
           force |-> b, fallback |-> c, key |-> TitleKey, summary |-> Summary(TITLE_LIMIT)] :
             l \in UNION {[1..k -> Answered] : k \in 0..1},
             t \in DescriptionTexts, b \in BOOLEAN, c \in BOOLEAN}
    \cup {[f |-> "description", attachments |-> l, absent |-> TRUE, text |-> <<>>,
           force |-> FALSE, fallback |-> c, key |-> TitleKey, summary |-> Summary(1)] :
             l \in UNION {[1..k -> Answered] : k \in 0..MaxAttachments},
             c \in BOOLEAN}

\* x is the name of a function with arguments of its input set
FnInput(x) ==
    \/ x \in TableInputs
    \/ x \in TranslateInputs
    \/ x \in AttachmentInputs
    \/ x \in LabelInputs
    \/ x \in TitleInputs
    \/ x \in DescriptionInputs

\* A function is about to be called with arguments of the input sets
FnInit ==
    /\ InitMain
    /\ gl_accounts = {GITLAB_ADMIN}
    /\ fn_pc = "ready"
    /\ FnInput(fn_in)
    /\ fn_out = NoOut

CallTable ==
    /\ fn_pc = "ready" /\ fn_in.f = "jira_table_to_markdown"
    /\ fn_out' = jira_table_to_markdown(fn_in.text, fn_in.force)
    /\ fn_pc' = "returned"
    /\ UNCHANGED <<main, fn_in>>

CallTranslate ==
    /\ fn_pc = "ready" /\ fn_in.f = "jira_text_2_gitlab_markdown"
    /\ fn_out' = jira_text_2_gitlab_markdown(fn_in.absent, fn_in.text, fn_in.force)
    /\ fn_pc' = "returned"
    /\ UNCHANGED <<main, fn_in>>

\* The translator is called on the text it returned
CallTranslateAgain ==
    /\ fn_pc = "returned" /\ fn_in.f = "jira_text_2_gitlab_markdown"
    /\ fn_in.pass = 1 /\ fn_out.err = "none"
    /\ fn_in' = [fn_in EXCEPT !.absent = FALSE, !.text = fn_out.val, !.pass = 2]
    /\ fn_out' = jira_text_2_gitlab_markdown(FALSE, fn_out.val, fn_in.force)
    /\ UNCHANGED <<main, fn_pc>>

\* The functions that move the attachments of fn_in: move_attachments called
\* on a list, and lines 651-687 that call it for the issue to create
MoveFns == {"move_attachments", "description"}

\* move_attachments is entered: no replacements yet (line 211)
CallMoveAttachments ==
    /\ fn_pc = "ready" /\ fn_in.f \in MoveFns
    /\ fn_out' = NoReplacements
    /\ fn_pc' = "get"
    /\ UNCHANGED <<main, fn_in>>

\* requests.get of the next attachment of the list is answered or raises: an
\* exception ends the function, an error status goes on to the next
\* attachment, an ok response to the upload
RequestsGet ==
    /\ fn_pc = "get" /\ Len(fn_out.gets) < Len(fn_in.attachments)
    /\ LET i == Len(fn_out.gets) + 1 IN
         /\ fn_out' = requests_get(fn_in.attachments, i, fn_out)
         /\ fn_pc' = IF fn_in.attachments[i].get = "raise" THEN "returned"
                     ELSE IF fn_in.attachments[i].get = "ok" THEN "post"
                     ELSE "get"
    /\ UNCHANGED <<main, fn_in>>

\* requests.post of the downloaded attachment is answered or raises
RequestsPost ==
    /\ fn_pc = "post"
    /\ LET i == Len(fn_out.gets) IN
         /\ fn_out' = requests_post(fn_in.attachments, i, fn_out)
         /\ fn_pc' = IF fn_in.attachments[i].post = "raise" THEN "returned" ELSE "get"
    /\ UNCHANGED <<main, fn_in>>

\* move_attachments returns the replacements (line 264)
ReturnReplacements ==
    /\ fn_pc = "get" /\ fn_in.f = "move_attachments"
    /\ Len(fn_out.gets) = Len(fn_in.attachments)
    /\ fn_pc' = "returned"
    /\ UNCHANGED <<main, fn_in, fn_out>>

\* SIGINT while the attachments are moved: between two requests, or while a
\* request, which has been made, waits for its answer. SigIntException ends
\* the function and nothing is returned.
sigint_handler ==
    /\ fn_pc \in {"get", "post"}
    /\ \E w \in {"between", "waiting"} :
         LET i == Len(fn_out.gets) IN
         /\ w = "waiting" => (fn_pc = "post" \/ i < Len(fn_in.attachments))
         /\ fn_out' = [(CASE w = "between" -> fn_out
                          [] w = "waiting" /\ fn_pc = "post" ->
                                [fn_out EXCEPT !.posts = Append(@, i)]
                          [] OTHER -> [fn_out EXCEPT !.gets = Append(@, i + 1)])
                         EXCEPT !.err = "SigIntException"]
    /\ fn_pc' = "returned"
    /\ UNCHANGED <<main, fn_in>>

\* The labels of an issue are built (migrate_project, lines 583-618)
CallLabels ==
    /\ fn_pc = "ready" /\ fn_in.f = "gl_labels"
    /\ fn_out' = gl_labels(fn_in.fields)
    /\ fn_pc' = "returned"
    /\ UNCHANGED <<main, fn_in>>

\* The title and the description of the issue to create are built
CallTitle ==
    /\ fn_pc = "ready" /\ fn_in.f = "title"
    /\ fn_out' = title_and_description(fn_in.key, fn_in.summary, fn_in.gl_description)
    /\ fn_pc' = "returned"
    /\ UNCHANGED <<main, fn_in>>

\* move_attachments has returned to line 653: the description of the issue
\* to create is built (migrate_project, lines 655-687)
CallDescription ==
    /\ fn_pc = "get" /\ fn_in.f = "description"
    /\ Len(fn_out.gets) = Len(fn_in.attachments)
    /\ fn_out' = gl_description(fn_in.attachments, fn_out.val, fn_in.absent, fn_in.text,
                                fn_in.force, fn_in.fallback, fn_in.key, fn_in.summary)
    /\ fn_pc' = "returned"
    /\ UNCHANGED <<main, fn_in>>

FnNext ==
    \/ CallTable \/ CallTranslate \/ CallTranslateAgain
    \/ CallMoveAttachments \/ RequestsGet \/ RequestsPost \/ ReturnReplacements
    \/ sigint_handler
    \/ CallLabels \/ CallTitle \/ CallDescription

FnSpec == FnInit /\ [][FnNext]_vars


\* ================================================================== claims
ItemOps == {"create", "epic", "delete", "upload", "comment", "worklog", "custom",
            "commits", "close"}
WrapPcs == {"wrapup", "reset", "wstore", "report", "done", "crashed"}
EnrichFailKinds == {"enrich_http", "enrich_timeout", "enrich_login"}
ItemFailKinds == {"create"} \cup EnrichFailKinds

\* Position of key k in the ordered issue list
Pos(k) == CHOOSE i \in 1..Len(jira_issues) : jira_issues[i] = k

\* The hash of an issue fetched with the content c
HashOfContent ==
    [c \in Contents |->
        issue_hash_of([f \in Fields |-> IF f = "summary" THEN c ELSE "t1"])]

\* The hash of issue k as fetched now
SrcHash(k) == HashOfContent[src[k]]

\* Positions in the call log of the calls op made for issue k
CallsOf(op, k) == {i \in DOMAIN calls : calls[i].op = op /\ calls[i].key = k}

\* The GitLab issue recorded for k exists with all its enrichment
FullyMigrated(m, k) ==
    /\ HasRec(m, k)
    /\ m[k].id \in DOMAIN gl_items
    /\ gl_items[m[k].id].enriched = Enrichments(k)
\* No record for k and no GitLab issue left for k
Unseen(m, k) ==
    /\ ~HasRec(m, k)
    /\ \A i \in DOMAIN gl_items : gl_items[i].key # k

\* C1: after an enrichment step failed on a created issue, the state
\* persisted at the end of the run holds no record for the issue's key.
C1_NoRecordSurvivesRollback ==
    (pc = "done" /\ h.failKind \in {"enrich_http", "enrich_timeout"})
        => ~HasRec(file.issue_mapping, h.failKey)

\* C2: whatever the kind of failure of an enrichment step (HTTP failure or
\* failure to elevate the author's account), a delete of the created issue
\* has been issued when the transaction has ended.
C2_DeleteIssuedOnAnyEnrichFailure ==
    (pc \in WrapPcs /\ h.failKind \in EnrichFailKinds)
        => \E i \in CallsOf("delete", h.failKey) : calls[i].id = gl_issue

\* C3: at process exit after an interrupt inside an item transaction, the
\* item is fully migrated or Unseen in the persisted state.
C3_InterruptLeavesItemWholeOrUnseen ==
    (pc = "done" /\ h.intrKey # 0)
        => \/ FullyMigrated(file.issue_mapping, h.intrKey)
           \/ Unseen(file.issue_mapping, h.intrKey)

\* C4: after the creation or an enrichment step of an issue failed, the
\* transaction of every later issue is run in the same run: the later issues
\* of the project's list and the issues of the later projects.
C4_LaterItemsRunAfterFailure ==
    (pc = "done" /\ h.failKind \in ItemFailKinds)
        => /\ \A i \in 1..Len(jira_issues) :
                 i > Pos(h.failKey) => jira_issues[i] \in h.started
           /\ \A q \in 1..Len(PROJECTS) :
                 q > project => ProjectKeys(q) \subseteq h.started

\* C5: in a run that follows a successful run with an unchanged source
\* (up to the volatile field), every issue is skipped: no item call and no
\* resolver call is issued and the records stay as they were, in memory and
\* in the state file whenever the file is whole.
C5_UnchangedRerunSkipsAll ==
    h.prevOk
        => /\ \A i \in DOMAIN calls : calls[i].op \notin ItemOps
           /\ link_calls = {}
           /\ h.started \subseteq h.skipped
           /\ h.loaded => /\ IMPORT_STATUS.issue_mapping = h.loadedMap
                          /\ file_form = "ok" => file.issue_mapping = h.loadedMap

C5_Witness ==
    /\ h.prevOk
    /\ pc = "done"
    /\ h.skipped = Keys
    /\ exit_status = 0

\* C6: an issue recorded with another hash, in a run without a failed call:
\* once its transaction is over, exactly one delete of the recorded GitLab
\* issue was issued, then exactly one create, and the record holds the new
\* GitLab issue and the new hash.
Recreated(k) ==
    /\ h.loaded /\ ~h.anyFail
    /\ HasRec(h.loadedMap, k)
    /\ h.loadedMap[k].hash # SrcHash(k)
    /\ k \in h.succeeded

C6_ChangedItemDeletedThenRecreated ==
    \A k \in Keys :
        Recreated(k)
            => LET dels == CallsOf("delete", k)
                   news == CallsOf("create", k)
               IN /\ Cardinality(dels) = 1
                  /\ Cardinality(news) = 1
                  /\ \A d \in dels : calls[d].id = h.loadedMap[k].id
                  /\ \A d \in dels, n \in news : d < n
                  /\ IMPORT_STATUS.issue_mapping[k] =
                        [id |-> NewId(k), hash |-> SrcHash(k)]
                  /\ NewId(k) \in DOMAIN gl_items
                  /\ pc = "done" => file.issue_mapping[k] = IMPORT_STATUS.issue_mapping[k]

C6_Witness ==
    /\ pc = "done"
    /\ \E k \in Keys : Recreated(k) /\ h.loadedMap[k].id \notin DOMAIN gl_items

\* C7: at the start of every item transaction the state file holds the
\* record of every issue whose transaction succeeded earlier in the run.
C7_SucceededItemsPersistedBeforeNext ==
    pc = "item"
        => \A k \in h.succeeded :
              /\ HasRec(file.issue_mapping, k)
              /\ file.issue_mapping[k] = IMPORT_STATUS.issue_mapping[k]

C7_Witness ==
    /\ pc = "item" /\ index <= Len(jira_issues)
    /\ h.succeeded # {}
    /\ h.created # {}

\* C8: on every way the run ends after the state was loaded, with or
\* without an interrupt, reset_user_privileges was called and then the
\* state was persisted, before the exit; a failed revert does not prevent
\* the state from being persisted.
C8_CleanupOnEveryExit ==
    /\ (pc \in {"done", "crashed"} /\ h.loaded)
          => /\ h.resetCalled /\ h.wrapStored
             /\ file = IMPORT_STATUS
    /\ h.wrapStored => h.resetCalled

\* C9: the exit status is 0 exactly when all projects were migrated and
\* process_links returned with no failed call; it is not 0 after an item
\* failure or after an interrupt; a failed revert in wrapup does not change
\* a success status.
C9_ExitStatus ==
    pc \in {"done", "crashed"}
        => /\ (exit_status = 0)
                <=> (h.projectsDone /\ h.linksDone /\ h.linkFailed = {})
           /\ (h.failKind # "none" \/ h.interrupted) => exit_status # 0
           /\ (h.projectsDone /\ h.linksDone /\ h.linkFailed = {}
                 /\ ~h.interrupted /\ h.resetFailed) => exit_status = 0

\* C10: when the process is killed, every account the engine elevated and
\* has not reverted is in the ledger of the state file.
C10_KilledLedgerCoversElevated ==
    pc = "killed" => h.elevated \subseteq file.gl_users_made_admin

\* C11: once revocation has run over the ledger, an entry is off the ledger
\* only if its revert succeeded (the account is no longer admin); the entry
\* whose revert failed, and every entry not reached, is still on the ledger;
\* at exit the ledger is in the state file and is what the final report
\* lists; when no revert failed and the loop was not interrupted the ledger
\* is empty.
C11_FailedRevertsStayOnLedger ==
    pc \in {"wstore", "report", "done"}
        => LET ledger == IMPORT_STATUS.gl_users_made_admin IN
           /\ ledger \subseteq h.ledger0
           /\ \A u \in h.ledger0 \ ledger : u \notin gl_admins
           /\ h.resetFailed => h.revertFail \in ledger
           /\ (~h.resetFailed /\ ~h.resetCut) => ledger = {}
           /\ pc = "done" => /\ file.gl_users_made_admin = ledger
                             /\ report = ledger

C11_Witness ==
    /\ pc = "done"
    /\ h.resetFailed
    /\ h.revertFail \in report
    /\ h.ledger0 \ report # {}

\* Both endpoints of the triple have a record in the issue mapping
BothRecorded(t) ==
    /\ HasRec(IMPORT_STATUS.issue_mapping, t[1])
    /\ HasRec(IMPORT_STATUS.issue_mapping, t[3])

\* C12: a triple whose GitLab call (link creation or duplicate note) failed
\* is still in links_todo.
C12_FailedTripleStaysPending ==
    h.linkFailed \subseteq IMPORT_STATUS.links_todo

\* C13: when process_links has returned, every triple left in links_todo
\* has an endpoint without a record, whatever its link type.
C13_PendingOnlyWithoutRecord ==
    h.linksDone => \A t \in IMPORT_STATUS.links_todo : ~BothRecorded(t)

\* C14: the iteration of process_links over a triple of which an endpoint
\* has no record issues no call, leaves the triple in links_todo and leaves
\* the issue mapping (the whole status) as it is.
C14_UnmappedTripleSkipped ==
    [][ (pc = "links" /\ pc' = "links" /\ todo' # todo)
          => \A t \in todo \ todo' :
                ~BothRecorded(t)
                    => /\ link_calls' = link_calls
                       /\ calls' = calls
                       /\ gl_items' = gl_items
                       /\ IMPORT_STATUS' = IMPORT_STATUS
                       /\ t \in IMPORT_STATUS'.links_todo ]_vars

C14_Witness ==
    /\ pc = "links"
    /\ link_calls # {}
    /\ \E t \in IMPORT_STATUS.links_todo \ todo : ~BothRecorded(t)

\* C15: process_links run again on what its previous pass left (the next
\* run, in which every issue is skipped) issues no call for a triple the
\* previous pass issued a call for.
C15_SecondPassRepeatsNoCall ==
    h.started \subseteq h.skipped
        => link_calls \cap h.prevLinkCalls = {}

\* C16: process_links issues a call only after every project of PROJECTS
\* was migrated and the transaction of every issue of every project has
\* ended (each skipped or imported); after a failure or an interrupt in the
\* item phase of any project process_links does not run in that run, and
\* the pending set (what was loaded and what the run collected) is in the
\* state file at exit.
C16_ResolverAfterAllItems ==
    /\ link_calls # {}
          => /\ pc \in {"links"} \cup WrapPcs
             /\ h.projectsDone
             /\ project = Len(PROJECTS)
             /\ \A q \in 1..Len(PROJECTS) :
                   ProjectKeys(q) \subseteq h.skipped \cup h.succeeded
    /\ (h.failKind # "none" \/ h.intrKey # 0)
          => /\ link_calls = {}
             /\ ~h.linksDone
             /\ h.loadedTodo \subseteq IMPORT_STATUS.links_todo
             /\ pc = "done" => file.links_todo = IMPORT_STATUS.links_todo

\* An issue of the second project failed after the issues of the first
\* were imported: a triple between two imported issues of the first project
\* is still pending in the state file and no call was issued for it
C16_Witness ==
    /\ pc = "done"
    /\ h.failKind \in ItemFailKinds
    /\ h.failKey \in ProjectKeys(2)
    /\ ProjectKeys(1) \subseteq h.succeeded
    /\ link_calls = {}
    /\ \E t \in file.links_todo :
          /\ t[2] \in NativeKinds
          /\ HasRec(file.issue_mapping, t[1]) /\ HasRec(file.issue_mapping, t[3])

\* Issue lists a project can return: the keys of ListKeys, each at most once
ListKeys == 1..(NumItems + 2)
IssueLists ==
    {s \in UNION {[1..n -> ListKeys] : n \in 0..(NumItems + 1)} :
        \A i, j \in DOMAIN s : i # j => s[i] # s[j]}

\* t is s with the epics moved to the front, both groups in the order of s
IsStablePartition(t, s) ==
    /\ Len(t) = Len(s)
    /\ {t[i] : i \in DOMAIN t} = {s[i] : i \in DOMAIN s}
    /\ \A i, j \in DOMAIN t : (i < j /\ IsEpic(t[j])) => IsEpic(t[i])
    /\ \A i, j \in DOMAIN t :
          (i < j /\ IsEpic(t[i]) = IsEpic(t[j]))
              => \E a, b \in DOMAIN s : a < b /\ s[a] = t[i] /\ s[b] = t[j]

\* C17: the list the issue loop of a project runs over is the stable
\* partition of the project's source list with the epics first (for the
\* list of every project in every run, and for every list of IssueLists
\* when the first run orders its first list); the issues are started one at
\* a time in the order of that list, after those of the earlier projects;
\* when the creation of an issue that is not an epic is attempted, the
\* transaction of every epic of the project has ended (its GitLab epic
\* exists from this run or from an earlier one).
C17_EpicsFirstStableOrder ==
    /\ (pc = "item" /\ index = 1)
          => IsStablePartition(jira_issues, ProjectIssues(project))
    /\ (pc = "item" /\ index = 1 /\ run = 1 /\ faults = 0)
          => \A s \in IssueLists : IsStablePartition(OrderIssues(s), s)
    /\ pc \in {"item"} \cup ItemPcs
          => h.started = UNION {ProjectKeys(q) : q \in 1..(project - 1)}
                         \cup {jira_issues[i] :
                                 i \in 1..(IF pc = "item" THEN index - 1 ELSE index)}
    /\ (pc = "create" /\ ~IsEpic(CurKey))
          => \A e \in ProjectKeys(project) :
                IsEpic(e) => e \in h.skipped \cup h.succeeded

\* The creation of an issue that is not an epic is attempted after an epic
\* with a greater key, which follows it in the source order, was imported
C17_Witness ==
    /\ pc = "create"
    /\ ~IsEpic(CurKey)
    /\ \E i \in 1..(index - 1) :
          /\ jira_issues[i] > CurKey
          /\ IsEpic(jira_issues[i])
          /\ jira_issues[i] \in h.succeeded
          /\ CallsOf("create", jira_issues[i]) # {}

\* The triples of issue k: one for each outward link, one (sub-task,
\* blocks, k) for each sub-task
Collected(k, pending) ==
    /\ \A l \in OutLinks(k) : <<k, l[1], l[2]>> \in pending
    /\ \A st \in Subtasks(k) : <<st, "blocks", k>> \in pending

\* C18: when the creation of the GitLab issue is attempted, and from then
\* on in the transaction, the triples of the issue are in links_todo; after
\* a failed creation or enrichment they are still there, and they are in
\* the state file when the run has exited.
C18_LinksCollectedBeforeCreate ==
    /\ pc \in ItemPcs \ {"assignee", "collect"}
          => Collected(CurKey, IMPORT_STATUS.links_todo)
    /\ (pc \in WrapPcs /\ h.failKind \in ItemFailKinds)
          => /\ Collected(h.failKey, IMPORT_STATUS.links_todo)
             /\ pc = "done" => Collected(h.failKey, file.links_todo)

C18_Witness ==
    /\ pc = "done"
    /\ h.failKind \in ItemFailKinds
    /\ OutLinks(h.failKey) # {}
    /\ Subtasks(h.failKey) # {}
    /\ Collected(h.failKey, file.links_todo)

\* C19: a run that finds the state file absent, empty or cut short starts
\* with a fresh status (no record, no pending triple) and does not fail.
C19_CorruptStateStartsFresh ==
    h.loadForm \in {"absent", "empty", "truncated"}
        => /\ h.loaded
           /\ h.loadedMap = EmptyStatus.issue_mapping
           /\ h.loadedTodo = {}
           /\ pc = "project" => IMPORT_STATUS = EmptyStatus

\* Dictionaries of fields: "summary" and any of the unstable fields
Copies ==
    UNION {{c \in [D -> Contents \cup Views] :
               /\ c["summary"] \in Contents
               /\ \A f \in D \ {"summary"} : c[f] \in Views}
           : D \in {E \in SUBSET Fields : "summary" \in E}}

\* For the copies fetched of an issue with the content c
HashesAgree ==
    [c \in Contents |->
        \A a \in Fetched(c), b \in Copies :
            /\ (DOMAIN a = DOMAIN b /\ a["summary"] = b["summary"])
                  => issue_hash_of(a) = issue_hash_of(b)
            /\ a["summary"] # b["summary"]
                  => issue_hash_of(a) # issue_hash_of(b)]

\* C20: at the top of the issue loop, the copy fetched for the issue and
\* any dictionary with the same fields that differs from it in the values
\* of the unstable fields only have the same hash, and any dictionary that
\* differs in the summary has another hash; so an issue that has a record
\* is skipped exactly when the recorded hash is that of the source as it is
\* now, and otherwise the old GitLab issue is deleted and the issue is
\* imported again.
C20_HashIgnoresUnstableFieldsOnly ==
    /\ (pc = "item" /\ index <= Len(jira_issues)) => HashesAgree[src[CurKey]]
    /\ \A k \in h.started :
          HasRec(h.loadedMap, k)
              => /\ k \in h.skipped <=> h.loadedMap[k].hash = SrcHash(k)
                 /\ k \notin h.skipped => CallsOf("delete", k) # {}

C20_Witness ==
    /\ pc = "done"
    /\ \E k \in h.skipped : HasRec(h.loadedMap, k)
    /\ \E k \in h.succeeded :
          /\ HasRec(h.loadedMap, k)
          /\ h.loadedMap[k].hash # SrcHash(k)
          /\ IMPORT_STATUS.issue_mapping[k].hash = SrcHash(k)


\* ------------------------------------------------------------------- C21
\* Some line that starts with the delimiter does not end with it after it has
\* taken in all the lines that follow
RECURSIVE NeverClosed(_, _)
NeverClosed(lines, i) ==
    IF i > Len(lines) THEN FALSE
    ELSE IF lines[i] # <<>> /\ Head(lines[i]) = "|"
    THEN LET a == Absorb(lines, i, 0) IN
         \/ Last(a.lines[i]) # "|"
         \/ NeverClosed(lines, i + a.j + 1)
    ELSE NeverClosed(lines, i + 1)

\* The text with its rows rejoined and its header rows converted
Converted(text) == join(Headers(Filtered(Rejoin(splitlines(text), 1, TRUE).lines)))

TableReturned(force) ==
    /\ fn_pc = "returned" /\ fn_in.f = "jira_table_to_markdown"
    /\ fn_in.force = force

\* C21: with force-repair disabled the table conversion returns the text
\* unchanged only when a row that starts with the delimiter is never closed;
\* in every other case, also when the last row is the last line of the text,
\* the rows are rejoined and converted. (Stated for the texts without empty
\* lines and without a line break at the end, which the conversion drops.)
C21_ClosedRowsConverted ==
    /\ TableReturned(FALSE)
    /\ fn_in.text = join(Filtered(splitlines(fn_in.text)))
    =>
        /\ fn_out.err = "none"
        /\ fn_out.val = IF NeverClosed(splitlines(fn_in.text), 1)
                        THEN fn_in.text
                        ELSE Converted(fn_in.text)

\* ------------------------------------------------------------------- C22
\* C22: a header row with double delimiters and n cells, first line of the
\* text, comes out as the row with single delimiters followed by one
\* separator row of n divider cells.
C22_HeaderGetsSeparatorPerColumn ==
    \A n \in 1..MaxCols :
        /\ fn_pc = "returned" /\ fn_in.f = "jira_table_to_markdown"
        /\ splitlines(fn_in.text) # <<>>
        /\ splitlines(fn_in.text)[1] = HeaderRow(n)
        => /\ fn_out.err = "none"
           /\ Len(fn_out.val) >= Len(TableRow(n) \o Separator(n))
           /\ SubSeq(fn_out.val, 1, Len(TableRow(n) \o Separator(n)))
                = TableRow(n) \o Separator(n)

\* ------------------------------------------------------------------- C23
\* C23: with force-repair enabled and no header row in the text, a first line
\* that is a row of n cells between single delimiters comes out followed by a
\* separator row of n divider cells, for odd and for even n.
C23_RepairSeparatorPerCell ==
    \A n \in 1..MaxCols :
        /\ TableReturned(TRUE)
        /\ splitlines(fn_in.text) # <<>>
        /\ splitlines(fn_in.text)[1] = TableRow(n)
        /\ \A k \in 1..Len(splitlines(fn_in.text)) : ~IsHeader(splitlines(fn_in.text)[k])
        => /\ fn_out.err = "none"
           /\ Len(fn_out.val) >= Len(TableRow(n) \o Separator(n))
           /\ SubSeq(fn_out.val, 1, Len(TableRow(n) \o Separator(n)))
                = TableRow(n) \o Separator(n)

\* ------------------------------------------------------------------- C24
\* C24: the translator returns a text for every text it is given (the empty
\* text for an absent one) and never raises, with force-repair enabled or
\* disabled.
C24_TranslatorNeverRaises ==
    fn_pc = "returned" /\ fn_in.f = "jira_text_2_gitlab_markdown" =>
        /\ fn_out.err = "none"
        /\ fn_in.absent => fn_out.val = <<>>


\* ------------------------------------------------------------------- C30
\* C30: the translator applied to a text it has returned returns that text
\* unchanged.
C30_TranslatorIdempotent ==
    /\ fn_pc = "returned" /\ fn_in.f = "jira_text_2_gitlab_markdown"
    /\ fn_in.pass = 2
    => fn_out = [err |-> "none", val |-> fn_in.text]


\* ------------------------------------------------------------------- C25
\* The attachments of the list whose download and upload both got an ok
\* response
Moved(l) == {i \in 1..Len(l) : l[i].get = "ok" /\ l[i].post = "ok"}

\* C25: whatever the downloads and uploads of a list of attachments do (ok,
\* an error status, or an exception of the transfer), move_attachments,
\* unless a SIGINT ends it, returns (the issue goes on), requests.get was
\* called for every attachment of the list, and the returned replacements
\* have an entry for exactly the file names of the attachments whose download
\* and upload were both ok.
C25_FailedTransferSkipsOneAttachment ==
    fn_pc = "returned" /\ fn_in.f = "move_attachments" /\ fn_out.err # "SigIntException"
    => /\ fn_out.err = "none"
       /\ fn_out.gets = [i \in 1..Len(fn_in.attachments) |-> i]
       /\ DOMAIN fn_out.val =
            {fn_in.attachments[i].filename : i \in Moved(fn_in.attachments)}
       /\ \A f \in DOMAIN fn_out.val : fn_out.val[f] \in Moved(fn_in.attachments)


\* ------------------------------------------------------------------- C26
InLabels(l) == \E i \in 1..Len(fn_out.val) : fn_out.val[i] = l

\* The label a named value must give: the value of the lookup table, or the
\* generic label derived from the name
LabelFor(name, map, prefix) ==
    IF name \in DOMAIN map THEN map[name] ELSE Prefixed(prefix, lower(name))

\* C26: building the labels never fails, whatever is null, and the type, the
\* priority, the status, the resolution and every component that has a name
\* give the label of the lookup table or the generic label of the name.
C26_EveryFieldMappedOrFallback ==
    fn_pc = "returned" /\ fn_in.f = "gl_labels" =>
        /\ fn_out.err = "none"
        /\ InLabels(LabelFor(fn_in.fields.issuetype.name, ISSUE_TYPE_MAP, ""))
        /\ fn_in.fields.priority.kind = "name" =>
             InLabels(LabelFor(fn_in.fields.priority.name, ISSUE_PRIORITY_MAP, PREFIX_PRIORITY))
        /\ fn_in.fields.status.kind = "name" =>
             InLabels(LabelFor(fn_in.fields.status.name, ISSUE_STATUS_MAP, ""))
        /\ fn_in.fields.resolution.kind = "name" =>
             InLabels(LabelFor(fn_in.fields.resolution.name, ISSUE_RESOLUTION_MAP, ""))
        /\ \A i \in 1..Len(fn_in.fields.components) :
             InLabels(LabelFor(fn_in.fields.components[i], ISSUE_COMPONENT_MAP,
                               PREFIX_COMPONENT))


\* ------------------------------------------------------------------- C27
\* C27: with epics enabled, when no group with the full path of the project's
\* group is found (gitlab_group_id stays None), the run fails before the
\* first issue of the project: no issue of the project is started and no
\* creation call is sent for one.
C27_NoItemWithoutGroup ==
    GITLAB_PREMIUM /\ gitlab_group_id = None =>
        /\ h.started \cap ProjectKeys(project) = {}
        /\ \A i \in 1..Len(calls) :
              calls[i].op = "create" => calls[i].key \notin ProjectKeys(project)


\* ------------------------------------------------------------------- C28
FullTitle == KeyPrefix(fn_in.key) \o fn_in.summary

\* C28: the title sent is never longer than 255 characters; a full title (key
\* prefix and summary) of at most 255 characters is sent as it is with the
\* description as it is; a longer one is sent as its first 252 characters
\* followed by "...", and the description then starts with the block
\* "Full original title:" that has the whole title, before the description.
C28_TitleAtMost255 ==
    fn_pc = "returned" /\ fn_in.f = "title" =>
        /\ Len(fn_out.title) <= 255
        /\ Len(FullTitle) <= 255 =>
             /\ fn_out.title = FullTitle
             /\ fn_out.description = fn_in.gl_description
        /\ Len(FullTitle) > 255 =>
             /\ fn_out.title = [i \in 1..255 |->
                                  IF i <= 252 THEN FullTitle[i] ELSE "."]
             /\ fn_out.description =
                  FULL_TITLE \o FullTitle \o <<"\n", "\n">> \o fn_in.gl_description

\* A title of 256 characters was cut
C28_Witness ==
    /\ fn_pc = "returned" /\ fn_in.f = "title"
    /\ Len(FullTitle) = 256
    /\ Len(fn_out.title) = 255
    /\ fn_out.title[253] = "."


\* ------------------------------------------------------------------- C29
AdminCalls == {i \in 1..Len(calls) : calls[i].op \in {"admin_on", "admin_off"}}

\* C29: the administrator is never on the ledger, in memory or in the state
\* file, and no privilege change is ever sent for it, whatever Jira user
\* resolves to it: resolve_login sends none for the system identity, for an
\* unmapped user and for a mapped user whose account the server lacks.
C29_AdminNeverOnLedger ==
    /\ GITLAB_ADMIN \notin IMPORT_STATUS.gl_users_made_admin
    /\ GITLAB_ADMIN \notin file.gl_users_made_admin
    /\ GITLAB_ADMIN \notin gl_admins
    /\ \A i \in AdminCalls : calls[i].user # GITLAB_ADMIN

\* In one run calls were made in the name of the administrator for each of
\* the three cases (an issue whose reporter is the system identity, an
\* issue with an unmapped reporter, an attachment whose mapped author has no
\* account on the server), and another account was elevated
C29_Witness ==
    /\ USER_MAP("Bane") \notin gl_accounts
    /\ \E i \in 1..Len(calls) :
         /\ calls[i].op = "create"
         /\ calls[i].user = GITLAB_ADMIN
         /\ Reporter(calls[i].key) = "jira"
    /\ \E i \in 1..Len(calls) :
         /\ calls[i].op = "create"
         /\ calls[i].user = GITLAB_ADMIN
         /\ Reporter(calls[i].key) \notin USER_MAP_DOM \cup {"jira"}
    /\ \E i \in 1..Len(calls) :
         /\ calls[i].op = "upload"
         /\ calls[i].user = GITLAB_ADMIN
         /\ AttachAuthor(calls[i].key) \in USER_MAP_DOM
    /\ AdminCalls # {}
    /\ IMPORT_STATUS.gl_users_made_admin # {}

\* ------------------------------------------------------------------- C31
\* C31: once wrapup has written the state file, every record of the file
\* refers to a GitLab issue that exists.
C31_PersistedRecordsReferToExistingItems ==
    h.wrapStored =>
        \A k \in Keys :
            HasRec(file.issue_mapping, k) => file.issue_mapping[k].id \in DOMAIN gl_items

\* ------------------------------------------------------------------- C32
\* The GitLab issues that exist for the Jira issue k
ItemsOf(k) == {i \in DOMAIN gl_items : gl_items[i].key = k}

\* C32: when a run has ended, GitLab holds at most one issue for each Jira
\* issue, over all the runs.
C32_AtMostOneItemPerKey ==
    pc = "done" => \A k \in Keys : Cardinality(ItemsOf(k)) <= 1

\* ------------------------------------------------------------------- C33
\* The links of the source between issues of the project, as triples
SourceLinks == UNION {LinksOf(k) : k \in Keys}

\* C33: after a run that ended with exit status 0, for every source link of
\* a native kind between two issues that have a record, GitLab has the link
\* between the issues the two records name.
C33_LinksOfRecordedItemsExist ==
    pc = "done" /\ exit_status = 0 =>
        \A t \in SourceLinks :
            /\ t[2] \in NativeKinds
            /\ HasRec(IMPORT_STATUS.issue_mapping, t[1])
            /\ HasRec(IMPORT_STATUS.issue_mapping, t[3])
            => Linked(gl_items, IMPORT_STATUS.issue_mapping[t[1]].id,
                      IMPORT_STATUS.issue_mapping[t[3]].id)

\* ------------------------------------------------------------------- C34
\* The GitLab issue of k is in the GitLab epic of the epic of k
InEpicOfRecord(k) ==
    LET m == IMPORT_STATUS.issue_mapping IN
    /\ m[k].id \in DOMAIN gl_items
    /\ gl_items[m[k].id].epic = m[EpicOf(k)].id

\* C34: in a run without a failed call, an issue that was created and fully
\* imported in this run, and whose epic has a record, is in the GitLab epic
\* that record names.
C34_MemberAttachedToRecordedEpic ==
    \A k \in Keys :
        /\ k \in h.created /\ k \in h.succeeded /\ ~h.anyFail
        /\ HasRec(IMPORT_STATUS.issue_mapping, EpicOf(k))
        => InEpicOfRecord(k)

\* ------------------------------------------------------------------- C35
\* load_import_status on a state file: the status it returns, or the
\* exception pickle.load raises that it does not catch
load_import_status(f, form) ==
    CASE LoadOutcome(form) = "loaded" -> [err |-> "none", val |-> f]
      [] LoadOutcome(form) \in {"FileNotFoundError", "EOFError"}
                                      -> [err |-> "none", val |-> EmptyStatus]
      [] OTHER -> [err |-> LoadOutcome(form), val |-> EmptyStatus]

\* C35: when the process is killed at a write of the state file, what the
\* next start loads from the file is what it would have loaded before the
\* write, or the status that was being written.
C35_KillAtWriteLeavesOldOrNew ==
    [][ (pc \in {"store", "wstore"} /\ pc' = "killed")
          => load_import_status(file', file_form')
               \in {load_import_status(file, file_form),
                    [err |-> "none", val |-> IMPORT_STATUS]} ]_vars

\* ------------------------------------------------------------------- C36
\* gitlab_user_admin(u, False) was called in this run
RevertAttempted(u) ==
    \E i \in DOMAIN calls : calls[i].op = "admin_off" /\ calls[i].user = u

\* C36: when reset_user_privileges has ended, by its end or by a failed
\* revert, the revert of every entry the ledger had was attempted, and the
\* ledger holds the entries whose revert failed and no other.
C36_EveryEntryAttempted ==
    pc \in {"wstore", "report", "done"} /\ h.resetCalled
        => /\ \A u \in h.ledger0 : RevertAttempted(u)
           /\ IMPORT_STATUS.gl_users_made_admin
                = (IF h.resetFailed THEN {h.revertFail} ELSE {})

\* ------------------------------------------------------------------- C37
\* No line of the text begins with the column delimiter
NoTableLine(text) ==
    \A k \in 1..Len(splitlines(text)) :
        splitlines(text)[k] = <<>> \/ Head(splitlines(text)[k]) # "|"

\* C37: with force-repair disabled, for a text that does not end with a line
\* break and in which no line begins with the column delimiter, the table
\* conversion returns the text it was given, blank lines included.
C37_TextWithoutTableUnchanged ==
    /\ fn_pc = "returned" /\ fn_in.f = "jira_table_to_markdown"
    /\ ~fn_in.force
    /\ (fn_in.text = <<>> \/ Last(fn_in.text) \notin LineBoundaries)
    /\ NoTableLine(fn_in.text)
    => fn_out = [err |-> "none", val |-> fn_in.text]

\* C38: when the description of the issue to create has been built, it
\* contains, for every attachment of the issue whose download and upload were
\* both ok, the markup that points to the upload made for that attachment.
C38_MovedAttachmentsMentioned ==
    (fn_pc = "returned" /\ fn_in.f = "description" /\ fn_out.err = "none") =>
        \A i \in Moved(fn_in.attachments) :
            Contains(fn_out.val, value(fn_in.attachments[i].filename, i))

====
